---- MODULE Spec2Model ----
(***************************************************************************)
(* The read path of the n6 Event DB (n6lib.data_backend_api): the          *)
(* time-windowed streaming query engine (_EventsQueryProcessor), the       *)
(* category-count processor (_CountsQueryProcessor), their helpers and    *)
(* the transaction context manager `transact`, as a state machine.         *)
(*                                                                         *)
(* Times are integers counting hours, so datetime.timedelta(days=d) is     *)
(* d * 24 and datetime.timedelta(hours=1) is 1.  Python's None is the      *)
(* value None (-1): every real time, limit and count is >= 0.              *)
(***************************************************************************)
EXTENDS Integers, Sequences, FiniteSets, TLC

None == -1

(* ------------------------------ bounds -------------------------------- *)
MaxDayStep == 2
MaxLimit == 2
MaxTime == 80

(* The instants the time constraints are drawn from (hours). *)
TimePoints == {0, 6, 24, 30, 47, 48, 72}
NowPoints == {23, 47}

VARIABLES
    opt_limit,       \* self._opt_limit (None or a number)
    day_step,        \* self._day_step
    time_min,        \* self._time_constraints[0]
    time_max,        \* self._time_constraints[1] (or None)
    time_until,      \* self._time_constraints[2] (or None)
    now,             \* what utcnow() returns
    access_filtering_conditions,  \* self._access_filtering_conditions
    client_org_ids,  \* self._client_org_ids (None or a non-empty set)
    store,           \* the rows of the Event DB: a set of [row, n] (n equal rows)
    since,           \* the argument of get_counts_per_category (None for a search)
    filtering_params, \* self._filtering_params: its 'url.b64' and 'client' items
                     \* (<<>>: absent)
    api,             \* the latest call on N6DataBackendAPI: its arguments, its outcome
    broker,          \* the broker's auth request: settings, Auth DB, params, response
    parser,          \* BaseParser.input_callback: the input and how far it got
    amqp,            \* SimpleAMQPExchangeTool._make_connection: attempts, outcome
    row_order,       \* the order in which the Event DB returns its rows: <<>> when
                     \* rows of equal time may come in another order for each
                     \* query, else <<the order every query follows>>
    url_norm_cache,  \* self._url_normalization_data_cache
    wgen,            \* the position of the _time_comparisons_per_step generator
    wins,            \* the windows it has yielded so far, in order
    pc,              \* generate_query_results: created, running, yielded, done
    fs,              \* _fetch_rows_from_db: nextwin, build, iter, end, closed
    page,            \* the rows the open page iterator has still to deliver
    qry,             \* the current page query: its limit and fetched-row counters
    tgroup,          \* the rows groupby has collected for the current `time`
    pending,         \* the id-groups of the completed time-group not yet processed
    results_counter, \* _results_counter[0]
    out,             \* the result dicts yielded so far, in order
    hist,            \* bookkeeping: queries issued, rows fetched, iterators, log
    counts,          \* what get_counts_per_category returned (<<>>: nothing)
    fin,             \* how the call ended: exit path and what the caller got
    context_count,   \* transact._context_deposit.context_count, per thread
    with_depth,      \* per thread: the `with transact:` bodies it is inside
    uncommitted,     \* per thread: the work its _DBSession holds uncommitted
    committed,       \* the work committed to the Event DB
    work_count,      \* the number of work items created so far
    stale,           \* per thread: the work uncommitted when it entered a scope
    last             \* the latest call on transact or the session, and its result

cfgVars == <<opt_limit, day_step, time_min, time_max, time_until, now,
             access_filtering_conditions, client_org_ids, store, since,
             filtering_params, api, broker, parser, amqp, row_order>>
engVars == <<pc, fs, page, qry, tgroup, pending, results_counter, out, hist,
             counts, fin, url_norm_cache>>
vars == <<opt_limit, day_step, time_min, time_max, time_until, now,
          access_filtering_conditions, client_org_ids, store, since,
          filtering_params, api, broker, parser, amqp, row_order, url_norm_cache, wgen, wins,
          pc, fs, page, qry, tgroup, pending, results_counter, out, hist,
          counts, fin, context_count, with_depth, uncommitted, committed,
          work_count, stale, last>>
txVars == <<context_count, with_depth, uncommitted, committed, work_count,
            stale, last>>

Max(a, b) == IF a >= b THEN a ELSE b

(* ------------------- _time_comparisons_per_step ----------------------- *)

\* step_delta = datetime.timedelta(days=self._day_step)
step_delta == day_step * 24

\* utcnow() + datetime.timedelta(hours=1)
HourMargin == 1

TimeLowerNoClamp(time_upper) == time_upper - step_delta

\* time_lower = max(time_min, time_upper - step_delta)
TimeLower(time_upper) == Max(time_min, time_upper - step_delta)

FirstCmpExclusive == "lt"

\* the comparison applied at the upper bound of the window yielded before the loop
FirstCmp == "le"

Window(lo, up, cmp) == [lower |-> lo, upper |-> up, cmp |-> cmp]

\* does the pair of comparisons of window w accept the time t?
InWindow(w, t) ==
    /\ t >= w.lower
    /\ IF w.cmp = "le" THEN t <= w.upper ELSE t < w.upper

WGenStart == [pos |-> "start", time_lower |-> None, time_upper |-> None]

\* one iteration of `while time_lower > time_min or time_upper is None`
LoopStep(g) ==
    IF g.time_lower > time_min \/ g.time_upper = None
    THEN LET up == g.time_lower
             lo == TimeLower(up)
         IN  [gen |-> [pos |-> "loop", time_lower |-> lo, time_upper |-> up],
              yielded |-> <<Window(lo, up, "lt")>>]
    ELSE [gen |-> [g EXCEPT !.pos = "done"], yielded |-> <<>>]

\* one next() of the generator: the new position and the window yielded
\* (<<>> when the generator is exhausted)
time_comparisons_next(g) ==
    IF g.pos = "start"
    THEN IF time_until = None
         THEN LET up == IF time_max # None THEN time_max ELSE now + HourMargin
                  lo == TimeLower(up)
              IN  [gen |-> [pos |-> "loop", time_lower |-> lo, time_upper |-> up],
                   yielded |-> <<Window(lo, up, FirstCmp)>>]
         ELSE LoopStep([pos |-> "loop", time_lower |-> time_until, time_upper |-> None])
    ELSE LoopStep(g)

(* ------------------- the state of a fresh generator ------------------- *)

\* self._url_normalization_data_cache of a new engine
EmptyCache == [k \in {} |-> <<>>]

\* self._filtering_params without a 'url.b64' item (and without 'client')
NoFilteringParams == [url_b64 |-> <<>>, client |-> <<>>]

\* the engine was built directly, not by a call on N6DataBackendAPI
NoRequest == [fn |-> "none", outcome |-> "none"]

\* no request of the broker is being served
NoBrokerRequest == [view |-> "none", response |-> "none"]

\* no input message is being handled by a parser
NoInput == [cls |-> "BaseParser", allow_empty_results |-> FALSE, input |-> <<>>,
            pos |-> "idle", i |-> 0, working_seq |-> <<>>, published |-> <<>>,
            raised |-> "none"]

\* no error of a connection attempt
NoExc == [attempt |-> 0, type |-> "none"]

\* no connection is being made
NoConnecting == [pos |-> "idle", attempts |-> 0, slept |-> 0,
                 last_exc |-> NoExc, outcome |-> "none", raised |-> NoExc]

NoQuery == [limit |-> None, offset |-> 0, cur_step_fetched_rows_count |-> 0,
            cur_query_fetched_rows_count |-> 0]

\* queries: page queries executed; fetched: the rows delivered by them;
\* openIters: page iterators opened and not yet left; drained / undrained:
\* rows the drain read / rows of a left iterator nobody read; drain_failed:
\* the iterator raised during a drain; logged: LOGGER.error was called for
\* it; win_queries, win_rows: the page queries executed for the current
\* window and the rows they delivered so far; page_len: the rows the last
\* page query had to deliver; at_build: the results produced when the last
\* page query was built; after_end: what a next() on the finished generator
\* gave the consumer; deliv: which page query of which window delivered a
\* row of which id and client; engine: the number of this engine instance;
\* earlier_keys, earlier_params: the keys the caches of the engines before
\* it held, and the filtering parameters of the engine just before it
NoHist == [queries |-> 0, fetched |-> {}, openIters |-> 0, drained |-> 0,
           undrained |-> 0, drain_failed |-> FALSE, logged |-> FALSE,
           win_queries |-> 0, win_rows |-> 0, page_len |-> 0, at_build |-> 0,
           after_end |-> "none", deliv |-> {}, engine |-> 1, earlier_keys |-> {},
           earlier_params |-> NoFilteringParams]

\* the Event DB promises no order among rows of equal time
NoRowOrder == <<>>

NotFinished == [cause |-> "none", outcome |-> "none"]

EngineCreated ==
    /\ pc = "created"
    /\ fs = "nextwin"
    /\ page = <<>>
    /\ qry = NoQuery
    /\ tgroup = <<>>
    /\ pending = <<>>
    /\ results_counter = 0
    /\ out = <<>>
    /\ hist = NoHist
    /\ counts = <<>>
    /\ fin = NotFinished
    /\ url_norm_cache = EmptyCache

(* ------------- the state before any use of `transact` ----------------- *)

\* the threads (execution contexts) that use the one global `transact`
Threads == {"t1", "t2"}

\* no session call fails
NoFailure == [flush |-> FALSE, rollback |-> FALSE, commit |-> FALSE]

\* no call yet.  op: the call; thread: who made it; exc_type: the exception
\* active in the body, handed to __exit__; entered_before: is_entered when the
\* call began; after_force: the thread's context was cleared by the
\* forced-exit helper just before; had: the work the session held
\* uncommitted when the call began; failed: the session calls that failed;
\* rollback, flush, commit, remove: the calls made on _DBSession; raised:
\* what the call raised; propagated: what the `with` statement lets out
\* after __exit__
NoCall == [op |-> "none", thread |-> "t1", exc_type |-> "none",
           entered_before |-> FALSE, after_force |-> FALSE, had |-> {},
           failed |-> NoFailure,
           rollback |-> 0, flush |-> 0, commit |-> 0, remove |-> 0,
           raised |-> "none", propagated |-> "none"]

TxCreated ==
    /\ context_count = [t \in Threads |-> 0]
    /\ with_depth = [t \in Threads |-> 0]
    /\ uncommitted = [t \in Threads |-> {}]
    /\ committed = {}
    /\ work_count = 0
    /\ stale = [t \in Threads |-> {}]
    /\ last = NoCall

(* --------- the window generator on its own (specification SpecW) ------- *)

OptTimes == TimePoints \cup {None}

InitW ==
    /\ opt_limit = None
    /\ day_step \in 1..MaxDayStep
    /\ time_min \in TimePoints
    /\ time_max \in OptTimes
    /\ time_until \in OptTimes
    /\ now \in NowPoints
    /\ access_filtering_conditions = {1}
    /\ client_org_ids = {None}
    /\ store = {}
    /\ since = None
    /\ filtering_params = NoFilteringParams
    /\ api = NoRequest
    /\ broker = NoBrokerRequest
    /\ wgen = WGenStart
    /\ wins = <<>>
    /\ EngineCreated
    /\ TxCreated
    /\ parser = NoInput
    /\ amqp = NoConnecting
    /\ row_order = NoRowOrder

\* next() yields one more window
WYield ==
    /\ wgen.pos # "done"
    /\ time_comparisons_next(wgen).yielded # <<>>
    /\ wgen' = time_comparisons_next(wgen).gen
    /\ wins' = wins \o time_comparisons_next(wgen).yielded
    /\ UNCHANGED <<cfgVars, txVars, url_norm_cache, engVars>>

\* next() finds the loop condition false: StopIteration
WStop ==
    /\ wgen.pos # "done"
    /\ time_comparisons_next(wgen).yielded = <<>>
    /\ wgen' = time_comparisons_next(wgen).gen
    /\ UNCHANGED <<wins, cfgVars, engVars, txVars>>

NextW == WYield \/ WStop

SpecW == InitW /\ [][NextW]_vars

(* ----------------------- claims on the windows ------------------------ *)

\* the upper end of the requested time range when time_until is absent
EffectiveUpper == IF time_max # None THEN time_max ELSE now + HourMargin

\* the times the request asks for: from time_min up to the effective upper
\* bound, which is time_until (not included) when time_until is given
Requested(t) ==
    /\ t >= time_min
    /\ IF time_until = None THEN t <= EffectiveUpper ELSE t < time_until

WindowsOf(t) == {i \in 1..Len(wins) : InWindow(wins[i], t)}

ThC7 ==
    /\ wgen.pos # "start" => Len(wins) >= 1
    /\ time_until = None =>
          \A i \in 1..Len(wins) :
              /\ wins[i].cmp = IF i = 1 THEN "le" ELSE "lt"
              /\ i = 1 => wins[i].upper =
                            IF time_max # None THEN time_max ELSE now + 1
    /\ time_until # None =>
          \A i \in 1..Len(wins) :
              /\ wins[i].cmp = "lt"
              /\ wins[i].upper = IF i = 1 THEN time_until
                                 ELSE Max(time_min, time_until - (i - 1) * day_step * 24)
              /\ wins[i].lower = Max(time_min, time_until - i * day_step * 24)

\* C7 witness: time_until and time_max both given (time_max above
\* time_until): two exclusive windows, the first one ending at time_until
WitC7 ==
    /\ wgen.pos = "done"
    /\ Len(wins) >= 2
    /\ time_until # None
    /\ time_max # None
    /\ time_max > time_until
    /\ wins[1].upper = time_until
    /\ wins[2].cmp = "lt"

(* ---- the window generator under any day_step setting (SpecD) ---------- *)

MaxWindows == 4

\* int(settings.get('day_step', DEFAULT_DAY_STEP)): no check is made on the
\* value, so 0 is a day_step the API works with
DayStepSettings == 0..MaxDayStep

InitD ==
    /\ opt_limit = None
    /\ day_step \in DayStepSettings
    /\ time_min \in TimePoints
    /\ time_max \in OptTimes
    /\ time_until \in OptTimes
    /\ now \in NowPoints
    /\ access_filtering_conditions = {1}
    /\ client_org_ids = {None}
    /\ store = {}
    /\ since = None
    /\ filtering_params = NoFilteringParams
    /\ api = NoRequest
    /\ broker = NoBrokerRequest
    /\ wgen = WGenStart
    /\ wins = <<>>
    /\ EngineCreated
    /\ TxCreated
    /\ parser = NoInput
    /\ amqp = NoConnecting
    /\ row_order = NoRowOrder

\* the latest MaxWindows windows of w
LatestWindows(w) ==
    IF Len(w) > MaxWindows THEN SubSeq(w, Len(w) - MaxWindows + 1, Len(w)) ELSE w

\* next() yields one more window; only the latest windows are remembered
DYield ==
    /\ wgen.pos # "done"
    /\ time_comparisons_next(wgen).yielded # <<>>
    /\ wgen' = time_comparisons_next(wgen).gen
    /\ wins' = LatestWindows(wins \o time_comparisons_next(wgen).yielded)
    /\ UNCHANGED <<cfgVars, txVars, url_norm_cache, engVars>>

\* next() finds the loop condition false: StopIteration
DStop ==
    /\ wgen.pos # "done"
    /\ time_comparisons_next(wgen).yielded = <<>>
    /\ wgen' = time_comparisons_next(wgen).gen
    /\ UNCHANGED <<wins, cfgVars, engVars, txVars>>

NextD == DYield \/ DStop

\* _fetch_rows_from_db keeps asking the generator for the next window
SpecD == InitD /\ [][NextD]_vars /\ WF_vars(NextD)

\* the effective upper bound of the request lies above time_min
UpperAboveTimeMin ==
    IF time_until # None THEN time_until > time_min ELSE EffectiveUpper > time_min

\* the generator is exhausted and the last window it yielded starts at time_min
WindowsEndedAtTimeMin ==
    /\ wgen.pos = "done"
    /\ wins # <<>>
    /\ wins[Len(wins)].lower = time_min

\* C33 as stated: for every day_step the API accepts from its settings and
\* every time constraints with the effective upper bound above time_min,
\* _time_comparisons_per_step yields finitely many windows and in the end a
\* window whose lower bound is time_min.
CexC33 == <>(UpperAboveTimeMin => WindowsEndedAtTimeMin)

(* ------------------------ run-length sequences ------------------------ *)
\* A list of fetched rows is kept as a sequence of [row, n]: n equal rows in
\* a row (the store holds rows that differ only in the ip/asn/cc columns).

RECURSIVE RLen(_)
RLen(s) == IF s = <<>> THEN 0 ELSE s[1].n + RLen(Tail(s))

RAppend(s, r) ==
    IF s # <<>> /\ s[Len(s)].row = r
    THEN [s EXCEPT ![Len(s)].n = @ + 1]
    ELSE Append(s, [row |-> r, n |-> 1])

RTail(s) == IF s[1].n > 1 THEN [s EXCEPT ![1].n = @ - 1] ELSE Tail(s)

RECURSIVE RDrop(_, _)
RDrop(s, k) ==
    IF k <= 0 \/ s = <<>> THEN s
    ELSE IF s[1].n <= k THEN RDrop(Tail(s), k - s[1].n)
    ELSE <<[s[1] EXCEPT !.n = @ - k]>> \o Tail(s)

RECURSIVE RTake(_, _)
RTake(s, k) ==
    IF k <= 0 \/ s = <<>> THEN <<>>
    ELSE IF s[1].n <= k THEN <<s[1]>> \o RTake(Tail(s), k - s[1].n)
    ELSE <<[s[1] EXCEPT !.n = k]>>

Range(s) == {s[i] : i \in 1..Len(s)}

RECURSIVE SortedSeq(_)
SortedSeq(S) ==
    IF S = {} THEN <<>>
    ELSE LET m == CHOOSE x \in S : \A y \in S : x <= y
         IN  <<m>> \o SortedSeq(S \ {m})

(* --------------------------- building queries ------------------------- *)

\* result.get('url') of a record without `url`
NoUrl == "None"

\* the urls that start with PROVISIONAL_URL_SEARCH_KEY_PREFIX
ProvisionalUrls == {"prov"}

\* url.startswith(PROVISIONAL_URL_SEARCH_KEY_PREFIX)
startswith_provisional_prefix(url) == url \in ProvisionalUrls

\* Python's None for the list of client organization ids
NoneIds == {None}

NoAccessFiltering(rows) == rows

\* query.filter(or_(*self._access_filtering_conditions)); row.sat is the set
\* of conditions the row satisfies
query__access_filtering(rows) ==
    {e \in rows : e.row.sat \cap access_filtering_conditions # {}}

ClientFilteringByEvent(rows) ==
    IF client_org_ids # NoneIds
    THEN {e \in rows : \E o \in rows : /\ o.row.id = e.row.id
                                       /\ o.row.client \in client_org_ids}
    ELSE rows

\* query.filter(client_column.in_(client_org_ids)) if client_org_ids is not None
query__client_filtering(rows) ==
    IF client_org_ids # NoneIds
    THEN {e \in rows : e.row.client \in client_org_ids}
    ELSE rows

\* query__param_filtering for the 'url.b64' parameter (the only filtering
\* parameter kept): the store matches a row whose url is one of the values,
\* and cannot decide on a provisional url
query__param_filtering(rows) ==
    IF filtering_params.url_b64 = <<>> THEN rows
    ELSE {e \in rows : \/ e.row.url \in ProvisionalUrls
                       \/ e.row.url \in filtering_params.url_b64[1]}

\* _build_query_base
build_query_base ==
    query__client_filtering(query__access_filtering(query__param_filtering(store)))

\* the filter of _build_query_base_for_single_step: both time comparisons
build_query_base_for_single_step(w) ==
    {e \in build_query_base : InWindow(w, e.row.time)}

OrderAscending(a, b) == a.row.time <= b.row.time

\* order_by(time.desc()): may a come before b?
OrderByTimeDesc(a, b) == a.row.time >= b.row.time

\* every order in which the database may return the rows S under the ORDER BY
\* (rows of equal time come in any order)
RECURSIVE Orders(_)
Orders(S) ==
    IF S = {} THEN {<<>>}
    ELSE LET first == {e \in S : \A f \in S : OrderByTimeDesc(e, f)}
         IN  UNION {{<<e>> \o o : o \in Orders(S \ {e})} : e \in first}

\* the orders in which a query may return the rows S: any order under the
\* ORDER BY, or the one the Event DB always follows
PageOrders(S) ==
    IF row_order = NoRowOrder THEN Orders(S)
    ELSE {SelectSeq(row_order[1], LAMBDA e : e \in S)}

ReserveFlat(still_expected) == 100

\* reserve = max(100, still_expected // 4)
Reserve(still_expected) == Max(100, still_expected \div 4)

\* _build_actual_query: the assertion, the limit and the offset
build_actual_query(cur_step_fetched_rows_count, produced) ==
    IF opt_limit # None
    THEN LET still_expected == opt_limit - produced
         IN  [ok |-> still_expected > 0,
              query_limit |-> still_expected + Reserve(still_expected),
              offset |-> cur_step_fetched_rows_count]
    ELSE [ok |-> TRUE, query_limit |-> None, offset |-> 0]

StepCompletedAfterAnyPage(query_limit, cur_query_fetched_rows_count) == TRUE

\* the test of line 1114: the queries of this step did all they could
step_completed(query_limit, cur_query_fetched_rows_count) ==
    query_limit = None \/ cur_query_fetched_rows_count < query_limit

PageRowsOffsetOffByOne(ord, q) ==
    IF q.query_limit = None THEN ord
    ELSE RTake(RDrop(ord, q.offset + 1), q.query_limit)

\* the rows a query delivers: .limit(query_limit).offset(offset) of the order
PageRows(ord, q) ==
    IF q.query_limit = None THEN ord
    ELSE RTake(RDrop(ord, q.offset), q.query_limit)

(* -------------------------- producing results ------------------------- *)

GroupedByTimeAndClient(row) == <<row.time, row.client>>

\* iter_grouped_by_attr(rows_generator, 'time'): the attribute whose change
\* ends a group of consecutive rows
grouping_attr(row) == row.time

GroupIds(g) == {e.row.id : e \in Range(g)}

\* iter_grouped_by_attr(same_time_rows, 'id', presort=True): a stable sort by
\* id, then one list per id
IdGroups(g) ==
    LET ids == SortedSeq(GroupIds(g))
    IN  [k \in 1..Len(ids) |-> SelectSeq(g, LAMBDA e : e.row.id = ids[k])]

MakeResultFirstClientOnly(same_id_rows) ==
    LET sample_row == same_id_rows[1].row
    IN  [id |-> sample_row.id, time |-> sample_row.time, sat |-> sample_row.sat,
         url |-> sample_row.url, url_data |-> sample_row.url_data,
         client |-> {sample_row.client}]

\* _make_result_dict: the sample row's columns and the non-null clients
make_result_dict(same_id_rows) ==
    LET sample_row == same_id_rows[1].row
        client_field_values == {e.row.client : e \in Range(same_id_rows)}
        org_client_ids == {org_id \in client_field_values : org_id # None}
    IN  [id |-> sample_row.id, time |-> sample_row.time, sat |-> sample_row.sat,
         url |-> sample_row.url, url_data |-> sample_row.url_data,
         client |-> org_client_ids]

\* a url_norm_opts that is no mapping
NoOpts == [mapping |-> FALSE, items |-> {}]

\* custom['url_data'] of a record without it (or without `custom`).  kind:
\* the type of the value; keys: its keys when it is a dict; url_orig, the
\* encoded original url; url_norm_opts: a mapping (the set of the options
\* that are switched on) or not
NoUrlData == [kind |-> "None", keys |-> {}, url_orig |-> "", url_norm_opts |-> NoOpts]

\* the keys of a valid url_data
UrlDataKeys == {"url_orig", "url_norm_opts"}

\* base64.urlsafe_b64encode of the urls used
B64 ==
    [u \in {"http://a", "http://a/", "http://b/"} |->
        CASE u = "http://a" -> "aHR0cDovL2E="
          [] u = "http://a/" -> "aHR0cDovL2Ev"
          [] OTHER -> "aHR0cDovL2Iv"]

\* base64.urlsafe_b64decode(as_bytes(s)): the decoded value, none when it
\* raises TypeError
urlsafe_b64decode(s) == {u \in DOMAIN B64 : B64[u] = s}

\* n6lib.url_helpers.normalize_url(url, **url_norm_opts), with the option
\* `epslash` (an empty path becomes "/")
normalize_url(url, opts) ==
    IF "epslash" \in opts /\ url = "http://a" THEN "http://a/" ELSE url

\* the cache item built for the options `key`: the normalizer (its options)
\* and the normalized 'url.b64' parameter values (<<>>: None)
build_url_norm_cache_item(key) ==
    [normalizer |-> key,
     param_urls_norm |->
        IF filtering_params.url_b64 = <<>> THEN <<>>
        ELSE <<{normalize_url(u, key) : u \in filtering_params.url_b64[1]}>>]

CacheItemOfAnyKey(key) ==
    IF DOMAIN url_norm_cache # {}
    THEN url_norm_cache[CHOOSE k \in DOMAIN url_norm_cache : TRUE]
    ELSE build_url_norm_cache_item(key)

\* url_norm_cache.get(url_norm_cache_key), or the item built on a miss
url_norm_cache_item(key) ==
    IF key \in DOMAIN url_norm_cache THEN url_norm_cache[key]
    ELSE build_url_norm_cache_item(key)

\* the record has a url_data and passes the two checks made on it
url_data_based_matching(result) ==
    /\ result.url_data.kind # "None"
    /\ result.url # NoUrl /\ startswith_provisional_prefix(result.url)
    /\ result.url_data.kind = "dict"
    /\ result.url_data.keys = UrlDataKeys

\* what _preprocess_result_dict raises for the record ("none": nothing)
preprocess_raised(result) ==
    IF ~url_data_based_matching(result) THEN "none"
    ELSE IF urlsafe_b64decode(result.url_data.url_orig) = {} THEN "TypeError"
    ELSE IF ~result.url_data.url_norm_opts.mapping THEN "AttributeError"
    ELSE "none"

\* the cache after _preprocess_result_dict returned for the record
url_norm_cache_after(result) ==
    IF url_data_based_matching(result)
           /\ result.url_data.url_norm_opts.items \notin DOMAIN url_norm_cache
    THEN [k \in DOMAIN url_norm_cache \cup {result.url_data.url_norm_opts.items} |->
             url_norm_cache_item(k)]
    ELSE url_norm_cache

PreprocessNeverDrops(result) == <<result>>

PreprocessKeepsUnfiltered(result) ==
    IF url_data_based_matching(result)
    THEN LET url_orig == CHOOSE u \in urlsafe_b64decode(result.url_data.url_orig) : TRUE
             item == url_norm_cache_item(result.url_data.url_norm_opts.items)
         IN  <<[result EXCEPT !.url = normalize_url(url_orig, item.normalizer),
                              !.url_data = NoUrlData]>>
    ELSE IF result.url_data.kind = "None"
            /\ ~(result.url # NoUrl /\ startswith_provisional_prefix(result.url))
    THEN <<result>>
    ELSE <<>>

PreprocessKeepsInvalid(result) ==
    IF result.url_data.kind = "None"
    THEN IF result.url # NoUrl /\ startswith_provisional_prefix(result.url)
         THEN <<>>
         ELSE <<result>>
    ELSE <<[result EXCEPT !.url_data = NoUrlData]>>

\* what _preprocess_result_dict returns when it does not raise: <<>> is None
preprocess_result_dict(result) ==
    IF result.url_data.kind = "None"
    THEN IF result.url # NoUrl /\ startswith_provisional_prefix(result.url)
         THEN <<>>
         ELSE <<result>>
    ELSE IF result.url = NoUrl \/ ~startswith_provisional_prefix(result.url)
    THEN <<>>
    ELSE IF result.url_data.kind # "dict" \/ result.url_data.keys # UrlDataKeys
    THEN <<>>
    ELSE LET url_orig == CHOOSE u \in urlsafe_b64decode(result.url_data.url_orig) : TRUE
             item == url_norm_cache_item(result.url_data.url_norm_opts.items)
             result_url_norm == normalize_url(url_orig, item.normalizer)
         IN  IF item.param_urls_norm # <<>>
                   /\ result_url_norm \notin item.param_urls_norm[1]
             THEN <<>>
             ELSE <<[result EXCEPT !.url = result_url_norm,
                                   !.url_data = NoUrlData]>>

\* produce_result_or_none, without the counter
produce_result_or_none(same_id_rows) ==
    preprocess_result_dict(make_result_dict(same_id_rows))

CountedTwice(count) == count + 2

\* _results_counter[0] += 1
counted(count) == count + 1

EnoughOffByOne(count) == opt_limit # None /\ count > opt_limit

\* enough_results_produced
enough_results_produced(count) == opt_limit # None /\ count >= opt_limit

(* --------------------------- errors and drain ------------------------- *)

HandlingNoTranslation(exc) == exc

\* handling_db_api_error: what leaves the `with` for an exception raised in it
handling_db_api_error(exc) ==
    IF exc = "DBAPIError" THEN "EventDatabaseError" ELSE exc

DrainRaises(pg, fails) ==
    [left |-> IF fails THEN RLen(pg) ELSE 0, logged |-> fails,
     raised |-> IF fails THEN "DrainError" ELSE "none"]

DrainSkipped(pg, fails) ==
    [left |-> RLen(pg), logged |-> FALSE, raised |-> "none"]

\* _try_to_exhaust_rows_fetching_iterator on an iterator with the rows pg
\* left; `fails`: the iterator raises when asked for the next row.  left is
\* the number of rows nobody read, logged whether LOGGER.error was called,
\* raised what the method lets out.
try_to_exhaust_rows_fetching_iterator(pg, fails) ==
    [left |-> IF fails THEN RLen(pg) ELSE 0, logged |-> fails, raised |-> "none"]

\* the ways the drain of the open iterator may go
DrainChoices == IF fs = "iter" THEN BOOLEAN ELSE {FALSE}

TerminateNever(cause, intended, drain_fails) ==
    UNCHANGED <<pc, hist, page, fs, fin>>

\* The generator ends: closing(rows_generator) closes the generator chain,
\* and if a page iterator is open the finally of _rows_fetching_iterator
\* drains it.  `intended` is what the consumer gets unless the drain raises.
Terminate(cause, intended, drain_fails) ==
    LET d == try_to_exhaust_rows_fetching_iterator(page, drain_fails)
    IN  /\ pc' = "done"
        /\ IF fs = "iter"
           THEN /\ hist' = [hist EXCEPT !.openIters = @ - 1,
                                        !.drained = @ + (RLen(page) - d.left),
                                        !.undrained = @ + d.left,
                                        !.drain_failed = @ \/ drain_fails,
                                        !.logged = @ \/ d.logged]
                /\ page' = <<>>
                /\ fs' = "closed"
                /\ fin' = [cause |-> cause,
                           outcome |-> IF d.raised # "none" THEN d.raised
                                       ELSE intended]
           ELSE /\ fin' = [cause |-> cause, outcome |-> intended]
                /\ UNCHANGED <<hist, page, fs>>

\* `return` at line 987, with its assertion
Return(drain_fails) ==
    Terminate("cap",
              IF results_counter = opt_limit THEN "StopIteration"
              ELSE "AssertionError",
              drain_fails)

(* ------------------------------ the engine ---------------------------- *)

\* the consumer's first next(): the generator starts
Start ==
    /\ pc = "created"
    /\ pc' = "running"
    /\ UNCHANGED <<cfgVars, txVars, url_norm_cache, counts, wgen, wins, fs, page, qry, tgroup, pending,
                   results_counter, out, hist, fin>>

\* groupby asks rows_generator for a row
Fetching == pc = "running" /\ pending = <<>>

\* _fetch_rows_from_db: the next window, and a fresh _fetch_rows_for_single_step
NextWindow ==
    /\ Fetching
    /\ fs = "nextwin"
    /\ time_comparisons_next(wgen).yielded # <<>>
    /\ wgen' = time_comparisons_next(wgen).gen
    /\ wins' = wins \o time_comparisons_next(wgen).yielded
    /\ qry' = NoQuery
    /\ hist' = [hist EXCEPT !.win_queries = 0, !.win_rows = 0, !.page_len = 0]
    /\ fs' = "build"
    /\ UNCHANGED <<cfgVars, txVars, url_norm_cache, counts, pc, page, tgroup, pending, results_counter, out,
                   fin>>

\* _fetch_rows_from_db: no window is left, rows_generator is exhausted
WindowsExhausted ==
    /\ Fetching
    /\ fs = "nextwin"
    /\ time_comparisons_next(wgen).yielded = <<>>
    /\ wgen' = time_comparisons_next(wgen).gen
    /\ fs' = "end"
    /\ UNCHANGED <<cfgVars, txVars, url_norm_cache, counts, wins, pc, page, qry, tgroup, pending,
                   results_counter, out, hist, fin>>

\* _build_actual_query fails its assertion
BuildAssertFails ==
    /\ Fetching
    /\ fs = "build"
    /\ ~build_actual_query(qry.cur_step_fetched_rows_count, results_counter).ok
    /\ Terminate("assert", "AssertionError", FALSE)
    /\ UNCHANGED <<cfgVars, txVars, url_norm_cache, counts, wgen, wins, qry, tgroup, pending, results_counter, out>>

\* _build_actual_query, then iter(query) executes the query
OpenPage ==
    /\ Fetching
    /\ fs = "build"
    /\ LET q == build_actual_query(qry.cur_step_fetched_rows_count, results_counter)
       IN  /\ q.ok
           /\ \E ord \in PageOrders(build_query_base_for_single_step(wins[Len(wins)])) :
                 /\ page' = PageRows(ord, q)
                 /\ hist' = [hist EXCEPT !.queries = @ + 1, !.openIters = @ + 1,
                                          !.win_queries = @ + 1,
                                          !.page_len = RLen(PageRows(ord, q)),
                                          !.at_build = results_counter]
           /\ qry' = [qry EXCEPT !.limit = q.query_limit,
                                 !.offset = q.offset,
                                 !.cur_query_fetched_rows_count = 0]
    /\ fs' = "iter"
    /\ UNCHANGED <<cfgVars, txVars, url_norm_cache, counts, wgen, wins, pc, tgroup, pending, results_counter,
                   out, fin>>

\* iter(query) raises DBAPIError: no iterator, the error is translated
OpenPageError ==
    /\ Fetching
    /\ fs = "build"
    /\ build_actual_query(qry.cur_step_fetched_rows_count, results_counter).ok
    /\ hist' = [hist EXCEPT !.queries = @ + 1]
    /\ pc' = "done"
    /\ fin' = [cause |-> "dberror", outcome |-> handling_db_api_error("DBAPIError")]
    /\ UNCHANGED <<cfgVars, txVars, url_norm_cache, counts, wgen, wins, fs, page, qry, tgroup, pending,
                   results_counter, out>>

\* `for row in iterator`: one row, counted and handed to groupby, which
\* closes the time-group when the row has another `time`
FetchRow ==
    /\ Fetching
    /\ fs = "iter"
    /\ page # <<>>
    /\ LET row == page[1].row
       IN  /\ page' = RTail(page)
           /\ qry' = [qry EXCEPT !.cur_step_fetched_rows_count = @ + 1,
                                 !.cur_query_fetched_rows_count = @ + 1]
           /\ hist' = [hist EXCEPT !.fetched = @ \cup {row}, !.win_rows = @ + 1,
                                    !.deliv = @ \cup {[id |-> row.id,
                                                       client |-> row.client,
                                                       window |-> Len(wins),
                                                       query |-> hist.win_queries]}]
           /\ IF tgroup = <<>> \/ grouping_attr(tgroup[1].row) = grouping_attr(row)
              THEN /\ tgroup' = RAppend(tgroup, row)
                   /\ UNCHANGED pending
              ELSE /\ pending' = IdGroups(tgroup)
                   /\ tgroup' = <<[row |-> row, n |-> 1]>>
    /\ UNCHANGED <<cfgVars, txVars, url_norm_cache, counts, wgen, wins, pc, fs, results_counter, out, fin>>

\* the iterator raises DBAPIError: the finally drains, the error is translated
FetchError ==
    /\ Fetching
    /\ fs = "iter"
    /\ page # <<>>
    /\ \E drain_fails \in DrainChoices :
          Terminate("dberror", handling_db_api_error("DBAPIError"), drain_fails)
    /\ UNCHANGED <<cfgVars, txVars, url_norm_cache, counts, wgen, wins, qry, tgroup, pending, results_counter, out>>

\* the iterator is exhausted: the `with` is left, then the test of line 1114
PageEnd ==
    /\ Fetching
    /\ fs = "iter"
    /\ page = <<>>
    /\ hist' = [hist EXCEPT !.openIters = @ - 1]
    /\ fs' = IF step_completed(qry.limit, qry.cur_query_fetched_rows_count)
             THEN "nextwin" ELSE "build"
    /\ UNCHANGED <<cfgVars, txVars, url_norm_cache, counts, wgen, wins, pc, page, qry, tgroup, pending,
                   results_counter, out, fin>>

\* rows_generator is exhausted: groupby closes the last time-group
StreamEnd ==
    /\ Fetching
    /\ fs = "end"
    /\ tgroup # <<>>
    /\ pending' = IdGroups(tgroup)
    /\ tgroup' = <<>>
    /\ UNCHANGED <<cfgVars, txVars, url_norm_cache, counts, wgen, wins, pc, fs, page, qry, results_counter,
                   out, hist, fin>>

\* the loops are over: the assertion of line 988, then StopIteration
Exhausted ==
    /\ Fetching
    /\ fs = "end"
    /\ tgroup = <<>>
    /\ Terminate("exhausted",
                 IF opt_limit = None \/ results_counter < opt_limit
                 THEN "StopIteration" ELSE "AssertionError",
                 FALSE)
    /\ UNCHANGED <<cfgVars, txVars, url_norm_cache, counts, wgen, wins, qry, tgroup, pending, results_counter, out>>

\* one id-group: produce_result_or_none, and the record is yielded
YieldResult ==
    /\ pc = "running"
    /\ pending # <<>>
    /\ preprocess_raised(make_result_dict(Head(pending))) = "none"
    /\ produce_result_or_none(Head(pending)) # <<>>
    /\ pending' = Tail(pending)
    /\ results_counter' = counted(results_counter)
    /\ out' = out \o produce_result_or_none(Head(pending))
    /\ url_norm_cache' = url_norm_cache_after(make_result_dict(Head(pending)))
    /\ pc' = "yielded"
    /\ UNCHANGED <<cfgVars, txVars, counts, wgen, wins, fs, page, qry, tgroup, hist, fin>>

\* one id-group whose record _preprocess_result_dict drops: nothing is
\* yielded, then the test of line 985
DropResult ==
    /\ pc = "running"
    /\ pending # <<>>
    /\ preprocess_raised(make_result_dict(Head(pending))) = "none"
    /\ produce_result_or_none(Head(pending)) = <<>>
    /\ pending' = Tail(pending)
    /\ url_norm_cache' = url_norm_cache_after(make_result_dict(Head(pending)))
    /\ IF enough_results_produced(results_counter)
       THEN \E drain_fails \in DrainChoices : Return(drain_fails)
       ELSE UNCHANGED <<pc, fs, page, hist, fin>>
    /\ UNCHANGED <<cfgVars, txVars, counts, wgen, wins, qry, tgroup, results_counter, out>>

\* one id-group whose record makes _preprocess_result_dict raise: the
\* exception leaves generate_query_results, closing the row generators
PreprocessError ==
    /\ pc = "running"
    /\ pending # <<>>
    /\ preprocess_raised(make_result_dict(Head(pending))) # "none"
    /\ \E drain_fails \in DrainChoices :
          Terminate("recorderror",
                    preprocess_raised(make_result_dict(Head(pending))),
                    drain_fails)
    /\ UNCHANGED <<cfgVars, txVars, url_norm_cache, counts, wgen, wins, qry, tgroup, pending,
                   results_counter, out>>

\* the consumer's next() after a result, the cap is reached: return
ResumeReturn ==
    /\ pc = "yielded"
    /\ enough_results_produced(results_counter)
    /\ \E drain_fails \in DrainChoices : Return(drain_fails)
    /\ UNCHANGED <<cfgVars, txVars, url_norm_cache, counts, wgen, wins, qry, tgroup, pending, results_counter, out>>

\* the consumer's next() after a result, the cap is not reached: go on
ResumeContinue ==
    /\ pc = "yielded"
    /\ ~enough_results_produced(results_counter)
    /\ pc' = "running"
    /\ UNCHANGED <<cfgVars, txVars, url_norm_cache, counts, wgen, wins, fs, page, qry, tgroup, pending,
                   results_counter, out, hist, fin>>

\* the consumer closes (or drops) the generator: GeneratorExit at the yield
Close ==
    /\ pc \in {"created", "yielded"}
    /\ \E drain_fails \in DrainChoices : Terminate("close", "closed", drain_fails)
    /\ UNCHANGED <<cfgVars, txVars, url_norm_cache, counts, wgen, wins, qry, tgroup, pending, results_counter, out>>

PullRestarts ==
    /\ pc' = "created"
    /\ hist' = [hist EXCEPT !.after_end = "restarted"]

\* a next() on the generator object of generate_query_results after it
\* returned or raised: the generator is finished, its frame is gone
pull_finished_generator ==
    /\ pc' = pc
    /\ hist' = [hist EXCEPT !.after_end = "StopIteration"]

\* the consumer pulls again after the end of the sequence
PullAfterEnd ==
    /\ pc = "done"
    /\ since = None
    /\ pull_finished_generator
    /\ UNCHANGED <<cfgVars, txVars, url_norm_cache, counts, wgen, wins, fs, page, qry,
                   tgroup, pending, results_counter, out, fin>>

(* ----------------------- get_counts_per_category ----------------------- *)

\* n6lib.const.CATEGORY_ENUMS (three of the categories)
CATEGORY_ENUMS == {"bots", "cnc", "phish"}

\* the rows _build_query_for_counts_per_category selects
CountedRows ==
    {e \in query__client_filtering(query__access_filtering(store)) :
        e.row.time >= since}

\* query.all(): per category (GROUP BY) the count of distinct ids
category_count_pairs ==
    [c \in {e.row.category : e \in CountedRows} |->
        Cardinality({e.row.id : e \in {x \in CountedRows : x.row.category = c}})]

CountsNotOverlaid == [c \in CATEGORY_ENUMS |-> 0]

CountsDropIllegal ==
    [c \in CATEGORY_ENUMS |->
        IF c \in DOMAIN category_count_pairs THEN category_count_pairs[c] ELSE 0]

\* dict.fromkeys(CATEGORY_ENUMS, 0) updated with the pairs
category_to_count ==
    [c \in CATEGORY_ENUMS \cup DOMAIN category_count_pairs |->
        IF c \in DOMAIN category_count_pairs THEN category_count_pairs[c] ELSE 0]

\* _verify_no_illegal_categories
illegal_categories == (DOMAIN category_to_count) \ CATEGORY_ENUMS

\* get_counts_per_category: the query, the update, the verification and
\* the assertion of line 767
GetCounts ==
    /\ pc = "counts"
    /\ pc' = "done"
    /\ hist' = [hist EXCEPT !.queries = @ + 1,
                            !.fetched = {e.row : e \in CountedRows}]
    /\ IF illegal_categories # {} \/ DOMAIN category_to_count # CATEGORY_ENUMS
       THEN /\ fin' = [cause |-> "assert", outcome |-> "AssertionError"]
            /\ UNCHANGED counts
       ELSE /\ fin' = [cause |-> "return", outcome |-> "returned"]
            /\ counts' = category_to_count
    /\ UNCHANGED <<cfgVars, txVars, url_norm_cache, wgen, wins, fs, page, qry, tgroup, pending,
                   results_counter, out>>

\* get_counts_per_category: query.all() raises DBAPIError
GetCountsError ==
    /\ pc = "counts"
    /\ pc' = "done"
    /\ hist' = [hist EXCEPT !.queries = @ + 1]
    /\ fin' = [cause |-> "dberror", outcome |-> handling_db_api_error("DBAPIError")]
    /\ UNCHANGED <<cfgVars, txVars, url_norm_cache, counts, wgen, wins, fs, page, qry, tgroup, pending,
                   results_counter, out>>

Next ==
    \/ Start
    \/ NextWindow
    \/ WindowsExhausted
    \/ BuildAssertFails
    \/ OpenPage
    \/ OpenPageError
    \/ FetchRow
    \/ FetchError
    \/ PageEnd
    \/ StreamEnd
    \/ Exhausted
    \/ YieldResult
    \/ DropResult
    \/ PreprocessError
    \/ ResumeReturn
    \/ ResumeContinue
    \/ Close
    \/ GetCounts
    \/ GetCountsError

(* ------------------------ the requests explored ----------------------- *)

BulkRows == 101

Row(id, time, client, sat, url, cat) ==
    [id |-> id, time |-> time, client |-> client, sat |-> sat, url |-> url,
     url_data |-> NoUrlData, category |-> cat]

\* the n rows an event is stored as for each client of cs
EventRows(id, time, cs, sat, url, n) ==
    {[row |-> Row(id, time, c, sat, url, "bots"), n |-> n] : c \in cs}

\* the rows of an event of the category cat that satisfies condition 1
CatRows(id, time, cs, cat) ==
    {[row |-> Row(id, time, c, {1}, "plain", cat), n |-> 1] : c \in cs}

Scenario(lim, ds, tmin, tmax, tuntil, afc, cids, st) ==
    [opt_limit |-> lim, day_step |-> ds, time_min |-> tmin, time_max |-> tmax,
     time_until |-> tuntil, afc |-> afc, cids |-> cids, store |-> st,
     since |-> None, filtering_params |-> NoFilteringParams, pc |-> "created"]

\* a call of get_counts_per_category
CountsScenario(snc, afc, cids, st) ==
    [opt_limit |-> None, day_step |-> 1, time_min |-> 0, time_max |-> None,
     time_until |-> None, afc |-> afc, cids |-> cids, store |-> st,
     since |-> snc, filtering_params |-> NoFilteringParams, pc |-> "counts"]

OptLimits == {None} \cup 0..MaxLimit

RowTimes == {3, 24, 30, 48}

\* three plain events at any times, under every kind of time constraints
TimeScenarios ==
    {Scenario(lim, ds, tmin, tc[1], tc[2], {1}, NoneIds,
              EventRows(1, t1, {1}, {1}, "plain", 1)
                \cup EventRows(2, t2, {1}, {1}, "plain", 1)
                \cup EventRows(3, t3, {1}, {1}, "plain", 1)) :
        lim \in OptLimits, ds \in 1..MaxDayStep, tmin \in {0, 6},
        tc \in {<<None, None>>, <<30, None>>, <<None, 30>>},
        t1 \in RowTimes, t2 \in RowTimes, t3 \in RowTimes}

NonEmptySubsets(S) == SUBSET S \ {{}}

\* two events stored for various clients (and for none), at the same time
\* or not, with and without a client filter
MergeScenarios ==
    {Scenario(lim, 1, 0, None, None, {1}, cids,
              EventRows(1, 30, cs1, {1}, "plain", 1)
                \cup EventRows(2, t2, cs2, {1}, "plain", 1)) :
        lim \in OptLimits \ {0}, cids \in {NoneIds, {1}, {1, 2}},
        cs1 \in NonEmptySubsets({None, 1, 2}), cs2 \in {{1}, {None}},
        t2 \in {24, 30}}

\* two events that satisfy one or the other access condition, with an
\* ordinary url or a provisional one without url_data
AccessScenarios ==
    {Scenario(lim, 1, 0, None, None, afc, NoneIds,
              EventRows(1, t1, {1}, sat1, url1, 1)
                \cup EventRows(2, t2, {2}, sat2, url2, 1)) :
        lim \in OptLimits \ {0}, afc \in {{1}, {1, 2}},
        t1 \in {24, 30}, t2 \in {24, 30},
        sat1 \in {{1}, {2}}, sat2 \in {{1}, {2}},
        url1 \in {"plain", "prov"}, url2 \in {"plain", "prov"}}

\* an event stored as very many rows, enough to fill a page, and another one
BulkScenarios ==
    {Scenario(lim, ds, 0, None, None, {1}, NoneIds,
              EventRows(1, 30, cs1, {1}, "plain", BulkRows)
                \cup EventRows(2, t2, {1}, {1}, url2, n2)) :
        lim \in 1..MaxLimit, ds \in 1..MaxDayStep,
        cs1 \in {{1}, {1, 2}}, t2 \in {3, 30, 48}, url2 \in {"plain", "prov"},
        n2 \in {1, BulkRows}}

BigLimit == 500

\* a cap so large that a quarter of it exceeds 100, over three plain events
ReserveScenarios ==
    {Scenario(BigLimit, ds, 0, None, None, {1}, NoneIds,
              EventRows(1, 30, {1}, {1}, "plain", 1)
                \cup EventRows(2, t2, {1}, {1}, "plain", 1)
                \cup EventRows(3, 3, {1}, {1}, "plain", 1)) :
        ds \in 1..MaxDayStep, t2 \in {24, 30}}

\* a row with a url_data
RowD(id, time, client, sat, url, cat, url_data) ==
    [id |-> id, time |-> time, client |-> client, sat |-> sat, url |-> url,
     url_data |-> url_data, category |-> cat]

\* a url_data dict {url_orig, url_norm_opts}
UrlData(url_orig, opts) ==
    [kind |-> "dict", keys |-> UrlDataKeys, url_orig |-> url_orig,
     url_norm_opts |-> [mapping |-> TRUE, items |-> opts]]

\* url_data values: two valid ones of "http://a" (normalized to "http://a/"
\* or not), a list, a dict with a key too many, a dict with a key missing,
\* a dict whose url_orig is a base64 text cut short, a dict whose url_norm_opts is None
UrlDataChoices ==
    {UrlData(B64["http://a"], {"epslash"}),
     UrlData(B64["http://a"], {}),
     [NoUrlData EXCEPT !.kind = "list"],
     [UrlData(B64["http://a"], {}) EXCEPT !.keys = UrlDataKeys \cup {"extra"}],
     [UrlData(B64["http://a"], {}) EXCEPT !.keys = {"url_orig"}],
     UrlData("aHR0cDovL2E", {}),
     [UrlData(B64["http://a"], {}) EXCEPT !.url_norm_opts = NoOpts]}

\* a search, with the 'url.b64' parameter "http://a/" or without it, over
\* an event with any url_data and a provisional url or not, an older event
\* with a valid url_data and an oldest one with the ordinary url "http://a/"
UrlDataScenarios ==
    {[Scenario(lim, 1, 0, None, None, {1}, NoneIds,
               {[row |-> RowD(1, 30, 1, {1}, url1, "bots", ud1), n |-> 1],
                [row |-> RowD(2, 24, 1, {1}, "prov", "bots", ud2), n |-> 1],
                [row |-> RowD(3, 3, 1, {1}, "http://a/", "bots", NoUrlData), n |-> 1]})
         EXCEPT !.filtering_params = fp] :
        lim \in {None, 2}, url1 \in {"prov", "plain", NoUrl},
        ud1 \in UrlDataChoices,
        ud2 \in {UrlData(B64["http://a"], {"epslash"}), UrlData(B64["http://b/"], {})},
        fp \in {NoFilteringParams,
                [NoFilteringParams EXCEPT !.url_b64 = <<{"http://a/"}>>]}}

\* the urls of records without url_data: none, an ordinary one, a
\* provisional one
Urls == {NoUrl, "plain", "prov"}

\* three events without url_data, of any url, the first two of the same
\* time or not
UrlScenarios ==
    {Scenario(lim, 1, 0, None, None, {1}, NoneIds,
              EventRows(1, 30, {1}, {1}, url1, 1)
                \cup EventRows(2, t2, {1}, {1}, url2, 1)
                \cup EventRows(3, 3, {1}, {1}, url3, 1)) :
        lim \in OptLimits \ {0}, t2 \in {24, 30},
        url1 \in Urls, url2 \in Urls, url3 \in Urls}

CountCategories == {"bots", "cnc", "unknown-category"}

\* get_counts_per_category over two events of any categories
CountsScenarios ==
    {CountsScenario(snc, afc, {1},
                    CatRows(1, 30, cs1, c1)
                      \cup {[row |-> Row(2, t2, 1, sat2, "plain", c2), n |-> 1]}
                      \cup CatRows(3, 30, {1}, "bots")) :
        snc \in {0, 30}, afc \in {{1}, {1, 2}},
        cs1 \in {{1}, {2}, {1, 2}}, c1 \in CountCategories,
        t2 \in {24, 30}, sat2 \in {{1}, {2}}, c2 \in CountCategories}

Scenarios ==
    TimeScenarios \cup MergeScenarios \cup AccessScenarios \cup BulkScenarios
        \cup ReserveScenarios \cup UrlScenarios \cup UrlDataScenarios
        \cup CountsScenarios

\* a processor built for one of the requests S, nothing called yet
ScenarioInit(S) ==
    /\ \E s \in S :
          /\ opt_limit = s.opt_limit
          /\ day_step = s.day_step
          /\ time_min = s.time_min
          /\ time_max = s.time_max
          /\ time_until = s.time_until
          /\ access_filtering_conditions = s.afc
          /\ client_org_ids = s.cids
          /\ store = s.store
          /\ since = s.since
          /\ filtering_params = s.filtering_params
          /\ pc = s.pc
    /\ now = 47
    /\ api = NoRequest
    /\ broker = NoBrokerRequest
    /\ wgen = WGenStart
    /\ wins = <<>>
    /\ fs = "nextwin"
    /\ page = <<>>
    /\ qry = NoQuery
    /\ tgroup = <<>>
    /\ pending = <<>>
    /\ results_counter = 0
    /\ out = <<>>
    /\ hist = NoHist
    /\ counts = <<>>
    /\ fin = NotFinished
    /\ url_norm_cache = EmptyCache
    /\ TxCreated
    /\ parser = NoInput
    /\ amqp = NoConnecting

Init == ScenarioInit(Scenarios) /\ row_order = NoRowOrder

Spec == Init /\ [][Next]_vars

(* -------- searches over an Event DB with a fixed row order (SpecO) ---- *)

\* the searches with paging, with events of equal time and with records the
\* URL filter drops, each without a cap and with every cap from 1 on
OrderScenarios ==
    {[s EXCEPT !.opt_limit = lim] :
        s \in BulkScenarios \cup MergeScenarios \cup UrlDataScenarios,
        lim \in {None} \cup 1..MaxLimit}

\* the Event DB returns equal-time rows in one order for all the queries of
\* the search, or in an order of its own for each query
InitO ==
    /\ ScenarioInit(OrderScenarios)
    /\ row_order \in {NoRowOrder} \cup {<<ord>> : ord \in Orders(store)}

NextO ==
    \/ Start
    \/ NextWindow
    \/ WindowsExhausted
    \/ OpenPage
    \/ OpenPageError
    \/ FetchRow
    \/ FetchError
    \/ PageEnd
    \/ StreamEnd
    \/ Exhausted
    \/ YieldResult
    \/ DropResult
    \/ PreprocessError
    \/ ResumeReturn
    \/ ResumeContinue
    \/ Close

SpecO == InitO /\ [][NextO]_vars

(* ------- one engine after another over the same store (SpecC) -------- *)

MaxEngines == 2

\* the 'url.b64' parameter of the searches: absent, or the urls given
UrlParamChoices ==
    {NoFilteringParams,
     [NoFilteringParams EXCEPT !.url_b64 = <<{"http://a/"}>>],
     [NoFilteringParams EXCEPT !.url_b64 = <<{"http://b/"}>>]}

\* a search over events that have a url_data
InitC == Init /\ \E e \in store : e.row.url_data.kind # "None"

\* _EventsQueryProcessor.__init__ for the next search: its own filtering
\* parameters, a new empty _url_normalization_data_cache, nothing produced
NewEngine ==
    /\ pc = "done"
    /\ hist.engine < MaxEngines
    /\ filtering_params' \in UrlParamChoices
    /\ url_norm_cache' = EmptyCache
    /\ hist' = [NoHist EXCEPT !.engine = hist.engine + 1,
                               !.earlier_keys = hist.earlier_keys
                                                  \cup DOMAIN url_norm_cache,
                               !.earlier_params = filtering_params]
    /\ pc' = "created"
    /\ fs' = "nextwin"
    /\ page' = <<>>
    /\ qry' = NoQuery
    /\ tgroup' = <<>>
    /\ pending' = <<>>
    /\ results_counter' = 0
    /\ out' = <<>>
    /\ fin' = NotFinished
    /\ wgen' = WGenStart
    /\ wins' = <<>>
    /\ UNCHANGED <<opt_limit, day_step, time_min, time_max, time_until, now,
                   access_filtering_conditions, client_org_ids, store, since,
                   api, broker, parser, amqp, row_order, counts, txVars>>

NextC ==
    \/ Start
    \/ NextWindow
    \/ WindowsExhausted
    \/ OpenPage
    \/ OpenPageError
    \/ FetchRow
    \/ FetchError
    \/ PageEnd
    \/ StreamEnd
    \/ Exhausted
    \/ YieldResult
    \/ DropResult
    \/ PreprocessError
    \/ ResumeReturn
    \/ ResumeContinue
    \/ Close
    \/ NewEngine

SpecC == InitC /\ [][NextC]_vars

\* a search whose consumer keeps pulling: it never closes the generator
InitF == Init /\ pc = "created"

\* the steps of generate_query_results between two next() of the consumer,
\* and the consumer's next()
NextF ==
    \/ Start
    \/ NextWindow
    \/ WindowsExhausted
    \/ BuildAssertFails
    \/ OpenPage
    \/ OpenPageError
    \/ FetchRow
    \/ FetchError
    \/ PageEnd
    \/ StreamEnd
    \/ Exhausted
    \/ YieldResult
    \/ DropResult
    \/ PreprocessError
    \/ ResumeReturn
    \/ ResumeContinue
    \/ PullAfterEnd

\* the interpreter runs the generator as long as it can run, and the
\* consumer asks for the next record after each one it got
SpecF == InitF /\ [][NextF]_vars /\ WF_vars(NextF)

(* --------------------------- N6DataBackendAPI ------------------------- *)

\* n6lib.auth_api.ACCESS_ZONES
ACCESS_ZONES == {"inside", "threats", "search"}

\* the item of a params dict: its value, or None when the key is absent
item(params, key) == IF params[key] = <<>> THEN None ELSE params[key][1]

\* params.pop(key, ...): the dict that is left
popped(params, key) == [params EXCEPT ![key] = <<>>]

ClientListPassedOn(params) ==
    IF params.client = <<>> THEN NoneIds ELSE params.client[1]

\* client_org_ids = params.pop('client', None) or None
popped_client_org_ids(params) ==
    IF params.client = <<>> \/ params.client[1] = {} THEN NoneIds
    ELSE params.client[1]

\* _get_access_filtering_conditions: <<>> when it raises AssertionError
get_access_filtering_conditions(access_zone_conditions, access_zone) ==
    IF access_zone \notin DOMAIN access_zone_conditions
           \/ access_zone_conditions[access_zone] = {}
    THEN <<>>
    ELSE <<access_zone_conditions[access_zone]>>

\* _pop_opt_limit
pop_opt_limit(params) == item(params, "opt_limit")

TimeMinNeverMissing(params) == FALSE

\* _pop_time_constraints raises AssertionError
time_min_missing(params) == params.time_min = <<>>

\* _pop_time_constraints, when it does not raise
pop_time_constraints(params) ==
    <<item(params, "time_min"), item(params, "time_max"), item(params, "time_until")>>

\* the params after _pop_opt_limit, _pop_time_constraints and
\* _delete_opt_prefixed_params
filtering_params_of(params) ==
    [url_b64 |-> params.url_b64, client |-> params.client]

\* _assert_internal_guarantees: all its assertions hold
assert_internal_guarantees(params, access_zone, cids) ==
    /\ params.client = <<>>
    /\ access_zone \in ACCESS_ZONES
    /\ IF access_zone = "inside"
       THEN cids # NoneIds /\ Cardinality(cids) = 1
       ELSE cids # {}

\* _BaseQueryProcessor.__init__: its two assertions hold
base_init_asserts(afc, cids) == afc # {} /\ cids # {}

\* the call raises AssertionError: nothing is built, nothing is queried
ApiRaises ==
    /\ api' = [api EXCEPT !.outcome = "AssertionError"]
    /\ pc' = "done"
    /\ fin' = [cause |-> "contract", outcome |-> "AssertionError"]
    /\ UNCHANGED <<opt_limit, day_step, time_min, time_max, time_until, now,
                   access_filtering_conditions, client_org_ids, store, since,
                   filtering_params, broker, parser, amqp, row_order>>

\* _generate_result_dicts: the engine is built and its generator returned
generate_result_dicts(params, access_zone_conditions, access_zone, cids) ==
    LET afc == get_access_filtering_conditions(access_zone_conditions, access_zone)
        time_constraints == pop_time_constraints(params)
        fparams == filtering_params_of(params)
    IN  IF \/ afc = <<>>
           \/ time_min_missing(params)
           \/ ~assert_internal_guarantees(fparams, access_zone, cids)
           \/ ~base_init_asserts(afc[1], cids)
        THEN ApiRaises
        ELSE /\ api' = [api EXCEPT !.outcome = "returned"]
             /\ pc' = "created"
             /\ opt_limit' = pop_opt_limit(params)
             /\ time_min' = time_constraints[1]
             /\ time_max' = time_constraints[2]
             /\ time_until' = time_constraints[3]
             /\ access_filtering_conditions' = afc[1]
             /\ client_org_ids' = cids
             /\ filtering_params' = fparams
             /\ UNCHANGED <<day_step, now, store, since, fin, broker, parser, amqp, row_order>>

apiUnchanged ==
    <<txVars, url_norm_cache, wgen, wins, fs, page, qry, tgroup, pending,
      results_counter, out, hist, counts>>

\* report_inside
ReportInside ==
    /\ api.fn = "report_inside"
    /\ api.outcome = "none"
    /\ IF api.params.client # <<>>
       THEN ApiRaises
       ELSE generate_result_dicts(api.params, api.access_zone_conditions,
                                  "inside", {api.org_id})
    /\ UNCHANGED apiUnchanged

\* report_threats
ReportThreats ==
    /\ api.fn = "report_threats"
    /\ api.outcome = "none"
    /\ generate_result_dicts(popped(api.params, "client"),
                             api.access_zone_conditions, "threats",
                             popped_client_org_ids(api.params))
    /\ UNCHANGED apiUnchanged

\* search_events
SearchEvents ==
    /\ api.fn = "search_events"
    /\ api.outcome = "none"
    /\ generate_result_dicts(popped(api.params, "client"),
                             api.access_zone_conditions, "search",
                             popped_client_org_ids(api.params))
    /\ UNCHANGED apiUnchanged

\* N6DataBackendAPI.get_counts_per_category, up to the call of the
\* processor's get_counts_per_category (GetCounts, GetCountsError)
GetCountsPerCategory ==
    /\ api.fn = "get_counts_per_category"
    /\ api.outcome = "none"
    /\ IF api.access_filtering_conditions = {}
             \/ ~base_init_asserts(api.access_filtering_conditions, {api.org_id})
       THEN ApiRaises
       ELSE /\ api' = [api EXCEPT !.outcome = "called"]
            /\ pc' = "counts"
            /\ access_filtering_conditions' = api.access_filtering_conditions
            /\ client_org_ids' = {api.org_id}
            /\ since' = api.since
            /\ UNCHANGED <<opt_limit, day_step, time_min, time_max, time_until,
                           now, store, filtering_params, fin, broker, parser, amqp, row_order>>
    /\ UNCHANGED apiUnchanged

\* a params dict without any item
NoParams ==
    [client |-> <<>>, time_min |-> <<>>, time_max |-> <<>>, time_until |-> <<>>,
     opt_limit |-> <<>>, url_b64 |-> <<>>]

\* cleaned params dicts: each item present or not, `client` also empty
ParamsChoices ==
    {[client |-> c, time_min |-> tmin, time_max |-> tmax, time_until |-> tuntil,
      opt_limit |-> lim, url_b64 |-> u] :
        c \in {<<>>, <<{}>>, <<{1}>>, <<{1, 2}>>},
        tmin \in {<<>>, <<0>>}, tmax \in {<<>>, <<30>>}, tuntil \in {<<>>, <<24>>},
        lim \in {<<>>, <<MaxLimit>>}, u \in {<<>>, <<{"http://a/"}>>}}

\* access_zone_conditions: each zone absent, with no condition or with one
AccessZoneConditionsChoices ==
    UNION {[zones -> {{}, {1}}] : zones \in SUBSET ACCESS_ZONES}

\* the calls explored
ApiRequests ==
    {[fn |-> f, outcome |-> "none", org_id |-> o, params |-> p,
      access_zone_conditions |-> azc, access_filtering_conditions |-> {},
      since |-> None] :
        f \in {"report_inside", "report_threats", "search_events"},
        o \in {1, 2}, p \in ParamsChoices, azc \in AccessZoneConditionsChoices}
    \cup
    {[fn |-> "get_counts_per_category", outcome |-> "none", org_id |-> o,
      params |-> NoParams, access_zone_conditions |-> <<>>,
      access_filtering_conditions |-> afc, since |-> snc] :
        o \in {1, 2}, afc \in {{}, {1}, {1, 2}}, snc \in {0, 30}}

\* before the call: no processor exists
InitA ==
    /\ api \in ApiRequests
    /\ broker = NoBrokerRequest
    /\ opt_limit = None
    /\ day_step = 1
    /\ time_min = None
    /\ time_max = None
    /\ time_until = None
    /\ now = 47
    /\ access_filtering_conditions = {}
    /\ client_org_ids = NoneIds
    /\ store = CatRows(1, 30, {1, 2}, "bots") \cup CatRows(2, 24, {1}, "cnc")
    /\ since = None
    /\ filtering_params = NoFilteringParams
    /\ wgen = WGenStart
    /\ wins = <<>>
    /\ pc = "request"
    /\ fs = "nextwin"
    /\ page = <<>>
    /\ qry = NoQuery
    /\ tgroup = <<>>
    /\ pending = <<>>
    /\ results_counter = 0
    /\ out = <<>>
    /\ hist = NoHist
    /\ counts = <<>>
    /\ fin = NotFinished
    /\ url_norm_cache = EmptyCache
    /\ TxCreated
    /\ parser = NoInput
    /\ amqp = NoConnecting
    /\ row_order = NoRowOrder

NextA ==
    \/ ReportInside
    \/ ReportThreats
    \/ SearchEvents
    \/ GetCountsPerCategory
    \/ GetCounts
    \/ GetCountsError

SpecA == InitA /\ [][NextA]_vars

(* -------- a search call and the consumption of its results (SpecI) ---- *)

\* the searches consumed: inside and threats, without url filter and
\* without time.until, over InitA's store: an event stored for the
\* organizations 1 and 2 and an event stored for the organization 1 only
InitI ==
    /\ InitA
    /\ api.fn \in {"report_inside", "report_threats"}
    /\ api.params.url_b64 = <<>>
    /\ api.params.time_until = <<>>

\* the call, then the consumer's next() and close() on what it returned
NextI ==
    \/ ReportInside
    \/ ReportThreats
    \/ Start
    \/ NextWindow
    \/ WindowsExhausted
    \/ OpenPage
    \/ OpenPageError
    \/ FetchRow
    \/ FetchError
    \/ PageEnd
    \/ StreamEnd
    \/ Exhausted
    \/ YieldResult
    \/ ResumeReturn
    \/ ResumeContinue
    \/ Close

SpecI == InitI /\ [][NextI]_vars

(* ---------------------- the stream-API broker auth -------------------- *)

EXPLICITLY_ILLEGAL_USERNAMES == {"", "guest"}

\* client_obj is None, client_type is None
NoClient == [type |-> "none", login |-> "", org_id |-> "", admin |-> FALSE]

VerifyAnyClient(username, password) == TRUE

\* should_try_to_verify_client (password: <<>> is None)
should_try_to_verify_client(username, password) ==
    /\ username \notin EXPLICITLY_ILLEGAL_USERNAMES
    /\ password = <<>>

\* verify_and_get_user_obj: the user of that login, with the id of its org
\* and whether it belongs to the admins system group
verify_and_get_user_obj(db, username) ==
    IF username \in DOMAIN db.user
    THEN [type |-> "user", login |-> username,
          org_id |-> db.user[username].org_id, admin |-> db.user[username].admin]
    ELSE NoClient

\* verify_and_get_component_obj
verify_and_get_component_obj(db, username) ==
    IF username \in db.component
    THEN [type |-> "component", login |-> username, org_id |-> "", admin |-> FALSE]
    ELSE NoClient

\* BaseBrokerAuthManager: client_obj and client_type, a user first, a
\* component otherwise, nothing when verification is not to be tried
get_client(db, username, password) ==
    IF ~should_try_to_verify_client(username, password) THEN NoClient
    ELSE IF verify_and_get_user_obj(db, username) # NoClient
    THEN verify_and_get_user_obj(db, username)
    ELSE verify_and_get_component_obj(db, username)

\* BaseBrokerAuthManager.client_verified
client_verified(client) == client.type # "none"

\* BaseBrokerAuthManager.client_is_admin_user
client_is_admin_user(client) == client.type = "user" /\ client.admin

\* apply_privileged_access_rules
apply_privileged_access_rules(settings, client) ==
    \/ client_is_admin_user(client)
    \/ /\ client.type = "component"
       /\ client.login \in settings.privileged_component_logins

\* apply_vhost_rules
apply_vhost_rules(client) == client_verified(client)

ExchangeRulesAnyPermissionOnPush(settings, client, permission_level, exchange_name) ==
    /\ client_verified(client)
    /\ \/ /\ settings.push_exchange_name # <<>>
          /\ exchange_name = settings.push_exchange_name[1]
       \/ /\ permission_level = "read"
          /\ client.type = "user"
          /\ client.org_id = exchange_name

\* apply_exchange_rules (push_exchange_name: <<>> is None)
apply_exchange_rules(settings, client, permission_level, exchange_name) ==
    IF ~client_verified(client) THEN FALSE
    ELSE IF permission_level = "configure" THEN FALSE
    ELSE IF /\ permission_level = "write"
            /\ settings.push_exchange_name # <<>>
            /\ exchange_name = settings.push_exchange_name[1]
    THEN TRUE
    ELSE IF /\ permission_level = "read"
            /\ client.type = "user"
            /\ client.org_id = exchange_name
    THEN TRUE
    ELSE FALSE

\* the names that start with "stomp"
StompNames == {"stomp", "stomp.queue1"}

\* _make_autogenerated_queue_matcher: the name starts with the prefix
autogenerated_queue_matcher(settings, queue_name) ==
    /\ settings.autogenerated_queue_prefix = "stomp"
    /\ queue_name \in StompNames

\* apply_queue_rules
apply_queue_rules(settings, client, queue_name) ==
    IF ~client_verified(client) THEN FALSE
    ELSE autogenerated_queue_matcher(settings, queue_name)

\* apply_topic_rules
apply_topic_rules(client) == client_verified(client)

\* the view answers: the client found and the response body
Respond(body) ==
    /\ broker.response = "none"
    /\ broker' = [broker EXCEPT
                     !.client = get_client(broker.db, broker.username, broker.password),
                     !.response = body]
    /\ UNCHANGED <<opt_limit, day_step, time_min, time_max, time_until, now,
                   access_filtering_conditions, client_org_ids, store, since,
                   filtering_params, api, parser, amqp, row_order, engVars, wgen, wins, txVars>>

\* N6BrokerAuthUserView
UserView ==
    /\ broker.view = "user"
    /\ LET client == get_client(broker.db, broker.username, broker.password)
       IN  Respond(
                   IF ~client_verified(client) THEN "deny"
                   ELSE IF client_is_admin_user(client) THEN "allow administrator"
                   ELSE "allow")

\* N6BrokerAuthVHostView
VHostView ==
    /\ broker.view = "vhost"
    /\ LET client == get_client(broker.db, broker.username, broker.password)
       IN  Respond(
                   IF apply_privileged_access_rules(broker.settings, client)
                         \/ apply_vhost_rules(client)
                   THEN "allow" ELSE "deny")

\* N6BrokerAuthResourceView
ResourceView ==
    /\ broker.view = "resource"
    /\ LET client == get_client(broker.db, broker.username, broker.password)
       IN  Respond(
                   IF broker.resource \notin {"exchange", "queue"}
                         \/ broker.permission \notin {"configure", "write", "read"}
                   THEN "deny"
                   ELSE IF apply_privileged_access_rules(broker.settings, client)
                   THEN "allow"
                   ELSE IF broker.resource = "exchange"
                   THEN IF apply_exchange_rules(broker.settings, client,
                                                broker.permission, broker.name)
                        THEN "allow" ELSE "deny"
                   ELSE IF apply_queue_rules(broker.settings, client, broker.name)
                        THEN "allow" ELSE "deny")

\* N6BrokerAuthTopicView
TopicView ==
    /\ broker.view = "topic"
    /\ LET client == get_client(broker.db, broker.username, broker.password)
       IN  Respond(
                   IF broker.resource # "topic"
                         \/ broker.permission \notin {"write", "read"}
                   THEN "deny"
                   ELSE IF apply_privileged_access_rules(broker.settings, client)
                              \/ apply_topic_rules(client)
                   THEN "allow" ELSE "deny")

\* the Auth DB of the tests: three users (one of them an admin), two
\* components and a component whose login is 'guest'
TestDb ==
    [user |-> [login \in {"test", "admin", "regular"} |->
                 [org_id |-> IF login = "test" THEN "o1" ELSE "o2",
                  admin |-> login = "admin"]],
     component |-> {"regular-comp", "privileged-comp", "guest"}]

\* an Auth DB where 'guest' is an admin user and '' a component
GuestDb ==
    [user |-> [login \in {"test", "guest"} |->
                 [org_id |-> "o1", admin |-> login = "guest"]],
     component |-> {"regular-comp", "privileged-comp", ""}]

\* the settings of the tests, the same without push exchange, and settings
\* that list '' and 'guest' among the privileged components
BrokerSettings ==
    {[push_exchange_name |-> push, privileged_component_logins |-> priv,
      autogenerated_queue_prefix |-> "stomp"] :
        push \in {<<>>, <<"_push">>},
        priv \in {{"privileged-comp"}, {"privileged-comp", "guest", ""}}}

Usernames ==
    {"", "guest", "test", "admin", "regular", "regular-comp", "privileged-comp",
     "unknown"}

ResourceNames == {"_push", "o1", "o2", "whatever", "stomp.queue1", ""}

\* the requests of the broker explored
BrokerRequests ==
    {[view |-> v, response |-> "none", settings |-> st, db |-> db,
      username |-> u, password |-> pw, resource |-> rs, permission |-> pm,
      name |-> nm, client |-> NoClient] :
        v \in {"user", "vhost", "resource", "topic"},
        st \in BrokerSettings, db \in {TestDb, GuestDb},
        u \in Usernames, pw \in {<<>>, <<"123">>},
        rs \in {"exchange", "queue", "topic"},
        pm \in {"configure", "write", "read", "whatever"},
        nm \in ResourceNames}

InitB ==
    /\ broker \in BrokerRequests
    /\ opt_limit = None
    /\ day_step = 1
    /\ time_min = 0
    /\ time_max = None
    /\ time_until = None
    /\ now = 47
    /\ access_filtering_conditions = {1}
    /\ client_org_ids = NoneIds
    /\ store = {}
    /\ since = None
    /\ filtering_params = NoFilteringParams
    /\ api = NoRequest
    /\ wgen = WGenStart
    /\ wins = <<>>
    /\ EngineCreated
    /\ TxCreated
    /\ parser = NoInput
    /\ amqp = NoConnecting
    /\ row_order = NoRowOrder

NextB == UserView \/ VHostView \/ ResourceView \/ TopicView

SpecB == InitB /\ [][NextB]_vars

(* -------- n6datasources.parsers.base: input_callback (SpecP) ---------- *)

MaxRecords == 3

\* the parser classes: BaseParser, a parser with SkipParseExceptionsMixin,
\* BlackListParser
ParserClasses == {"BaseParser", "SkipParseExceptionsParser", "BlackListParser"}

\* what the input holds for one data item: a record that goes through; one
\* whose `with` block in parse() raises AdjusterError or KeyError; one that
\* parse() yields without the `with` statement; one for which
\* postprocess_parsed raises; one for which get_ready_json raises
ItemKinds == {"ok", "AdjusterError", "KeyError", "no_with", "PostprocessError",
              "SerializeError"}

\* the errors raised in the `with` block of a record dict
ParseErrors == {"AdjusterError", "KeyError"}

HandleParseErrorSkipsAll(cls, context_manager_error) == TRUE

\* handle_parse_error of the class: TRUE silences the error (the record is
\* skipped, parse() goes on), FALSE propagates it
handle_parse_error(cls, context_manager_error) ==
    CASE cls = "BlackListParser" -> FALSE
      [] cls = "SkipParseExceptionsParser" -> TRUE
      [] OTHER -> context_manager_error = "AdjusterError"

\* the record dict parse() yields for the item no of the input
RecordDict(no, kind) == [id |-> no, kind |-> kind, form |-> "RecordDict"]

\* parsed.get_ready_json().encode('utf-8')
get_ready_json(parsed) == [parsed EXCEPT !.form = "json"]

\* an exception leaves input_callback
ParserRaises(exc) == parser' = [parser EXCEPT !.pos = "done", !.raised = exc]

\* get_output_bodies, first loop: parse() handles the next data item
ParseRecord ==
    /\ parser.pos = "parse"
    /\ parser.i < Len(parser.input)
    /\ LET kind == parser.input[parser.i + 1]
       IN  IF kind \in ParseErrors
           THEN IF handle_parse_error(parser.cls, kind)
                THEN parser' = [parser EXCEPT !.i = @ + 1]
                ELSE ParserRaises(kind)
           ELSE IF kind = "no_with"
           THEN ParserRaises("AssertionError")
           ELSE parser' = [parser EXCEPT
                              !.i = @ + 1,
                              !.working_seq = Append(@, RecordDict(parser.i + 1, kind))]
    /\ UNCHANGED <<opt_limit, day_step, time_min, time_max, time_until, now,
                   access_filtering_conditions, client_org_ids, store, since,
                   filtering_params, api, broker, amqp, row_order, engVars, wgen, wins, txVars>>

\* parse() is exhausted: total = len(working_seq)
ParseEnd ==
    /\ parser.pos = "parse"
    /\ parser.i = Len(parser.input)
    /\ parser' = [parser EXCEPT !.pos = "postprocess", !.i = 0]
    /\ UNCHANGED <<opt_limit, day_step, time_min, time_max, time_until, now,
                   access_filtering_conditions, client_org_ids, store, since,
                   filtering_params, api, broker, amqp, row_order, engVars, wgen, wins, txVars>>

\* get_output_bodies, second loop: postprocess_parsed and get_ready_json
PostprocessRecord ==
    /\ parser.pos = "postprocess"
    /\ parser.i < Len(parser.working_seq)
    /\ LET parsed == parser.working_seq[parser.i + 1]
       IN  IF parsed.kind \in {"PostprocessError", "SerializeError"}
           THEN ParserRaises(parsed.kind)
           ELSE parser' = [parser EXCEPT
                              !.i = @ + 1,
                              !.working_seq[parser.i + 1] = get_ready_json(parsed)]
    /\ UNCHANGED <<opt_limit, day_step, time_min, time_max, time_until, now,
                   access_filtering_conditions, client_org_ids, store, since,
                   filtering_params, api, broker, amqp, row_order, engVars, wgen, wins, txVars>>

\* get_output_bodies: the test of the empty result, then `return working_seq`
ReturnOutputBodies ==
    /\ parser.pos = "postprocess"
    /\ parser.i = Len(parser.working_seq)
    /\ IF parser.working_seq = <<>> /\ ~parser.allow_empty_results
       THEN ParserRaises("ValueError")
       ELSE parser' = [parser EXCEPT !.pos = "publish", !.i = 0]
    /\ UNCHANGED <<opt_limit, day_step, time_min, time_max, time_until, now,
                   access_filtering_conditions, client_org_ids, store, since,
                   filtering_params, api, broker, amqp, row_order, engVars, wgen, wins, txVars>>

\* input_callback: publish_output for the next output body
PublishOutput ==
    /\ parser.pos = "publish"
    /\ parser.i < Len(parser.working_seq)
    /\ parser' = [parser EXCEPT
                     !.i = @ + 1,
                     !.published = Append(@, parser.working_seq[parser.i + 1])]
    /\ UNCHANGED <<opt_limit, day_step, time_min, time_max, time_until, now,
                   access_filtering_conditions, client_org_ids, store, since,
                   filtering_params, api, broker, amqp, row_order, engVars, wgen, wins, txVars>>

\* publish_output raises: input_callback is left in the midst of publishing
PublishError ==
    /\ parser.pos = "publish"
    /\ parser.i < Len(parser.working_seq)
    /\ ParserRaises("PublishError")
    /\ UNCHANGED <<opt_limit, day_step, time_min, time_max, time_until, now,
                   access_filtering_conditions, client_org_ids, store, since,
                   filtering_params, api, broker, amqp, row_order, engVars, wgen, wins, txVars>>

\* input_callback: every output body is published
PublishEnd ==
    /\ parser.pos = "publish"
    /\ parser.i = Len(parser.working_seq)
    /\ parser' = [parser EXCEPT !.pos = "done"]
    /\ UNCHANGED <<opt_limit, day_step, time_min, time_max, time_until, now,
                   access_filtering_conditions, client_org_ids, store, since,
                   filtering_params, api, broker, amqp, row_order, engVars, wgen, wins, txVars>>

\* the inputs of up to MaxRecords data items
ParserInputs == UNION {[1..n -> ItemKinds] : n \in 0..MaxRecords}

InitP ==
    /\ opt_limit = None
    /\ day_step = 1
    /\ time_min = 0
    /\ time_max = None
    /\ time_until = None
    /\ now = 47
    /\ access_filtering_conditions = {1}
    /\ client_org_ids = NoneIds
    /\ store = {}
    /\ since = None
    /\ filtering_params = NoFilteringParams
    /\ api = NoRequest
    /\ broker = NoBrokerRequest
    /\ amqp = NoConnecting
    /\ row_order = NoRowOrder
    /\ wgen = WGenStart
    /\ wins = <<>>
    /\ EngineCreated
    /\ TxCreated
    /\ \E cls \in ParserClasses, allow \in BOOLEAN, input \in ParserInputs :
          parser = [NoInput EXCEPT !.cls = cls, !.allow_empty_results = allow,
                                   !.input = input, !.pos = "parse"]

NextP ==
    \/ ParseRecord
    \/ ParseEnd
    \/ PostprocessRecord
    \/ ReturnOutputBodies
    \/ PublishOutput
    \/ PublishError
    \/ PublishEnd

SpecP == InitP /\ [][NextP]_vars

(* ---- n6lib.amqp_helpers: SimpleAMQPExchangeTool._make_connection ------ *)

CONNECTION_ATTEMPTS == 10

\* CONNECTION_RETRY_DELAY = 0.5, in tenths of a second
CONNECTION_RETRY_DELAY == 5

\* pika.exceptions.AMQPConnectionError and two of its subclasses
AMQPConnectionErrors ==
    {"AMQPConnectionError", "IncompatibleProtocolError", "ProbableAuthenticationError"}

\* what one pass of the loop may meet: a connection, an error of
\* pika.ConnectionParameters(...), an AMQPConnectionError or another
\* exception of pika.BlockingConnection(...)
AttemptResults ==
    {"connection", "ParametersError", "OtherError"} \cup AMQPConnectionErrors

CaughtAnyException(exc_type) == TRUE

\* except pika.exceptions.AMQPConnectionError
caught(exc_type) == exc_type \in AMQPConnectionErrors

amqpUnchanged ==
    <<opt_limit, day_step, time_min, time_max, time_until, now,
      access_filtering_conditions, client_org_ids, store, since,
      filtering_params, api, broker, parser, row_order, engVars, wgen, wins,
      txVars>>

\* one pass of `for _ in range(self.CONNECTION_ATTEMPTS)`
Attempt ==
    /\ amqp.pos = "loop"
    /\ amqp.attempts < CONNECTION_ATTEMPTS
    /\ \E res \in AttemptResults :
          LET no == amqp.attempts + 1
          IN  IF res = "connection"
              THEN amqp' = [amqp EXCEPT !.attempts = no, !.pos = "returned",
                                        !.outcome = "connection"]
              ELSE IF res # "ParametersError" /\ caught(res)
              THEN amqp' = [amqp EXCEPT !.attempts = no,
                                        !.slept = @ + CONNECTION_RETRY_DELAY,
                                        !.last_exc = [attempt |-> no, type |-> res]]
              ELSE amqp' = [amqp EXCEPT !.attempts = no, !.pos = "raised",
                                        !.outcome = "raised",
                                        !.raised = [attempt |-> no, type |-> res]]
    /\ UNCHANGED amqpUnchanged

\* the loop is over: assert last_exc is not None; raise last_exc
RaiseLast ==
    /\ amqp.pos = "loop"
    /\ amqp.attempts = CONNECTION_ATTEMPTS
    /\ amqp' = [amqp EXCEPT
                   !.pos = "raised",
                   !.outcome = "raised",
                   !.raised = IF amqp.last_exc # NoExc THEN amqp.last_exc
                              ELSE [attempt |-> 0, type |-> "AssertionError"]]
    /\ UNCHANGED amqpUnchanged

\* the caller of _make_connection (__enter__) goes on with what it got
AfterMakeConnection ==
    /\ amqp.pos \in {"returned", "raised"}
    /\ amqp' = [amqp EXCEPT !.pos = IF amqp.pos = "returned" THEN "entered"
                                    ELSE "failed"]
    /\ UNCHANGED amqpUnchanged

InitQ ==
    /\ opt_limit = None
    /\ day_step = 1
    /\ time_min = 0
    /\ time_max = None
    /\ time_until = None
    /\ now = 47
    /\ access_filtering_conditions = {1}
    /\ client_org_ids = NoneIds
    /\ store = {}
    /\ since = None
    /\ filtering_params = NoFilteringParams
    /\ api = NoRequest
    /\ broker = NoBrokerRequest
    /\ parser = NoInput
    /\ amqp = [NoConnecting EXCEPT !.pos = "loop"]
    /\ row_order = NoRowOrder
    /\ wgen = WGenStart
    /\ wins = <<>>
    /\ EngineCreated
    /\ TxCreated

NextQ == Attempt \/ RaiseLast \/ AfterMakeConnection

SpecQ == InitQ /\ [][NextQ]_vars

(* ------------------------ claims on the engine ------------------------ *)

Results == Range(out)

\* the events of the store that the request matches (filters and time range)
MatchingIds == {e.row.id : e \in {x \in build_query_base : Requested(x.row.time)}}

\* C1: with a cap opt_limit = N >= 0 the result sequence never holds more
\* than N results, whatever the store and the time constraints.
ThC1 == opt_limit # None => Len(out) <= opt_limit

\* C1 witness: the cap 2 stopped a search that three events match
WitC1 ==
    /\ pc = "done"
    /\ fin.cause = "cap"
    /\ opt_limit = 2
    /\ Len(out) = 2
    /\ Cardinality(MatchingIds) = 3

AccessOk(sat) == sat \cap access_filtering_conditions # {}

\* C2: every row a page query or the counts query delivers, and so every
\* result yielded and every event counted, satisfies at least one of the
\* access filtering conditions.
ThC2 ==
    /\ \A row \in hist.fetched : AccessOk(row.sat)
    /\ \A r \in Results : AccessOk(r.sat)

\* C2 witness: a search that yielded the event the conditions admit while
\* the store also holds, at the same time, an event they do not admit
WitC2 ==
    /\ fin.cause = "exhausted"
    /\ Len(out) = 1
    /\ \E e \in store : /\ ~AccessOk(e.row.sat)
                        /\ e.row.time = out[1].time
                        /\ e.row.url = "plain"

\* C3: once the N-th result (N = opt_limit >= 1) has been yielded, no step
\* of the engine issues a page query or opens a window.
ThC3 ==
    [][(opt_limit # None /\ opt_limit >= 1 /\ Len(out) = opt_limit)
          => (hist'.queries = hist.queries /\ wins' = wins)]_vars

\* C3 witness: the generator returned on the cap while a matching row was
\* still unfetched and a window still unopened
WitC3 ==
    /\ pc = "done"
    /\ fin.cause = "cap"
    /\ Len(out) = opt_limit
    /\ wgen.pos # "done"
    /\ \E e \in build_query_base :
          Requested(e.row.time) /\ e.row \notin hist.fetched

\* C4: a generator that returned on the cap has produced exactly opt_limit
\* results, one that ran out of windows has no cap or produced fewer than
\* opt_limit, and neither terminal assertion fails.
ThC4 ==
    /\ fin.cause = "cap" =>
          /\ fin.outcome # "AssertionError"
          /\ results_counter = opt_limit
    /\ fin.cause = "exhausted" =>
          /\ fin.outcome # "AssertionError"
          /\ opt_limit = None \/ results_counter < opt_limit

\* C4 witness: all windows exhausted one result short of the cap
WitC4 ==
    /\ fin.cause = "exhausted"
    /\ fin.outcome = "StopIteration"
    /\ opt_limit = 2
    /\ results_counter = 1

\* C5: the `time` values of the yielded results never increase along the
\* result sequence.
ThC5 == \A i \in 1..(Len(out) - 1) : out[i].time >= out[i+1].time

\* C5 witness: three results of strictly decreasing time from two windows
WitC5 ==
    /\ Len(out) = 3
    /\ Len(wins) >= 2
    /\ out[1].time > out[2].time
    /\ out[2].time > out[3].time
    /\ InWindow(wins[1], out[2].time)
    /\ ~InWindow(wins[1], out[3].time)

FetchedOf(r) == {row \in hist.fetched : row.id = r.id /\ row.time = r.time}

\* C8: each yielded result carries as `client` exactly the non-null clients
\* of the fetched rows of its time and id, no two results share time and id,
\* and when the search runs to its end every fetched time-and-id group whose
\* record is not dropped has its result.
ThC8 ==
    /\ \A r \in Results :
          r.client = {row.client : row \in FetchedOf(r)} \ {None}
    /\ \A i, j \in 1..Len(out) :
          (out[i].id = out[j].id /\ out[i].time = out[j].time) => i = j
    /\ fin.cause = "exhausted" =>
          \A row \in hist.fetched :
              (row.url_data = NoUrlData /\ row.url # "prov") =>
                  \E r \in Results : r.id = row.id /\ r.time = row.time

\* C8 witness: three rows of one event (clients 1, 2 and null) and a row of
\* another event of the same time gave two results, one with clients {1, 2}
WitC8 ==
    /\ Len(out) = 2
    /\ out[1].time = out[2].time
    /\ out[1].client = {1, 2}
    /\ \E row \in FetchedOf(out[1]) : row.client = None

\* C9 as stated: when the generator has ended, every row of every opened
\* page iterator has been consumed.
CexC9 == pc = "done" => (hist.openIters = 0 /\ hist.undrained = 0)

\* C9, amended: at most one page iterator is open, and only while its page
\* is being read (no query is built, no window opened with one open); when
\* the generator has ended, on any exit path, none is open and the drain has
\* run: rows are left unread only if the iterator raised during the drain,
\* and then the failure was logged.
ThC9 ==
    /\ hist.openIters <= 1
    /\ hist.openIters = 1 <=> fs = "iter"
    /\ pc = "done" =>
          /\ hist.openIters = 0
          /\ hist.undrained > 0 => (hist.drain_failed /\ hist.logged)

\* C9 witness: the consumer closed the generator while a page iterator had
\* rows left, and the drain read them
WitC9 ==
    /\ pc = "done"
    /\ fin.cause = "close"
    /\ hist.drained >= 1
    /\ hist.undrained = 0
    /\ ~hist.drain_failed

\* what the exit path gives the consumer when no drain interferes
Intended(cause) ==
    CASE cause = "close" -> {"closed"}
      [] cause = "dberror" -> {"EventDatabaseError"}
      [] cause = "assert" -> {"AssertionError"}
      [] cause = "recorderror" -> {"TypeError", "AttributeError"}
      [] cause \in {"cap", "exhausted"} -> {"StopIteration", "AssertionError"}
      [] OTHER -> {"returned"}

\* C10: a failure of the drain is logged and changes nothing else: close()
\* returns normally, a return on the cap stays a normal end, a translated
\* database error stays that error.
ThC10 ==
    pc = "done" =>
        /\ fin.outcome \in Intended(fin.cause)
        /\ hist.drain_failed => hist.logged

\* C10 witness: close() of the consumer returned normally although the drain
\* of the open page iterator failed with rows left
WitC10 ==
    /\ pc = "done"
    /\ fin.cause = "close"
    /\ fin.outcome = "closed"
    /\ hist.drain_failed
    /\ hist.logged
    /\ hist.undrained >= 1

\* C11: a driver failure (DBAPIError) raised while a page query is executed,
\* while its rows are fetched or while the counts query runs reaches the
\* caller as EventDatabaseError; the raw DBAPIError never leaves the result
\* sequence nor get_counts_per_category.
ThC11 ==
    /\ fin.outcome # "DBAPIError"
    /\ fin.cause = "dberror" => (pc = "done" /\ fin.outcome = "EventDatabaseError")

\* C11 witness: the driver failed while the rows of a page were fetched,
\* after a result had been yielded, and the consumer got EventDatabaseError
WitC11 ==
    /\ pc = "done"
    /\ fin.cause = "dberror"
    /\ fin.outcome = "EventDatabaseError"
    /\ fs = "closed"
    /\ Len(out) >= 1

(* ------------ the transactional scope `transact` (SpecT) -------------- *)

MaxWork == 2
MaxDepth == 2

\* which of the session's calls fail in one __exit__(exc_type, ...): the
\* combinations that differ in a call __exit__ can make
Failures(exc_type) ==
    IF exc_type = "none"
    THEN {f \in [flush : BOOLEAN, rollback : BOOLEAN, commit : BOOLEAN] :
             /\ f.rollback => f.flush
             /\ f.commit => ~f.flush}
    ELSE [flush : {FALSE}, rollback : BOOLEAN, commit : {FALSE}]

\* the thread's session and the database at the start of a call on transact
\* running: the call goes on; raised: the exception that ended it
Effect(t) ==
    [uncommitted |-> uncommitted[t], committed |-> committed,
     rollback |-> 0, flush |-> 0, commit |-> 0, remove |-> 0, raised |-> "none"]

\* _DBSession.rollback(): the uncommitted work is discarded
session_rollback(e, fails) ==
    [e EXCEPT !.rollback = @ + 1,
              !.uncommitted = IF fails THEN @ ELSE {},
              !.raised = IF fails THEN "RollbackError" ELSE "none"]

\* _DBSession.flush(): the pending writes are sent, still uncommitted
session_flush(e, fails) ==
    [e EXCEPT !.flush = @ + 1,
              !.raised = IF fails THEN "FlushError" ELSE "none"]

\* _DBSession.commit(): the uncommitted work becomes committed
session_commit(e, fails) ==
    [e EXCEPT !.commit = @ + 1,
              !.committed = IF fails THEN @ ELSE @ \cup e.uncommitted,
              !.uncommitted = IF fails THEN @ ELSE {},
              !.raised = IF fails THEN "CommitError" ELSE "none"]

\* _DBSession.remove(): the thread's session is closed and dropped
session_remove(e) ==
    [e EXCEPT !.remove = @ + 1, !.uncommitted = {}]

SharedContextCount(t) ==
    LET S == {context_count[u] : u \in Threads}
    IN  CHOOSE m \in S : \A x \in S : m >= x

\* self._context_deposit.context_count as the thread t sees it: the deposit
\* is a ThreadLocalContextDeposit
deposit_context_count(t) == context_count[t]

\* is_entered
is_entered(t) == context_count[t] > 0

NestingAllowed == "nested"

\* the context_factory __enter__ passes: nesting is not allowed
context_factory == "NotImplemented"

OutermostFactoryNoRollback(e, fails) == e

\* the outermost_context_factory __enter__ passes: _DBSession.rollback
outermost_context_factory(e, fails) == session_rollback(e, fails)

\* ThreadLocalContextDeposit.on_enter: [count, eff]; the context is pushed
\* only when its factory returned
on_enter(count, e, fails) ==
    IF count > 0
    THEN IF context_factory = "NotImplemented"
         THEN [count |-> count,
               eff |-> [e EXCEPT !.raised = "ContextManagerIsNotReentrantError"]]
         ELSE [count |-> count + 1, eff |-> e]
    ELSE LET e1 == outermost_context_factory(e, fails)
         IN  [count |-> IF e1.raised = "none" THEN count + 1 ELSE count,
              eff |-> e1]

\* __enter__
transact_enter(count, e, fails) == on_enter(count, e, fails)

FinalizerCommitsAlways(e, exc_type, f) ==
    LET e1 == session_commit(e, f.commit)
    IN  [eff |-> e1, flush_exc_info |-> "none"]

FinalizerCommitsAfterFlushError(e, exc_type, f) ==
    IF exc_type = "none"
    THEN LET e1 == session_flush(e, f.flush)
             e2 == session_commit([e1 EXCEPT !.raised = "none"], f.commit)
         IN  [eff |-> e2,
              flush_exc_info |-> IF e1.raised # "none" /\ e2.raised = "none"
                                 THEN e1.raised ELSE "none"]
    ELSE [eff |-> session_rollback(e, f.rollback), flush_exc_info |-> "none"]

FinalizerRollsBackToo(e, exc_type, f) ==
    IF exc_type = "none"
    THEN LET e1 == session_flush(e, f.flush)
         IN  IF e1.raised # "none"
             THEN LET e2 == session_rollback(e1, f.rollback)
                  IN  [eff |-> e2,
                       flush_exc_info |-> IF e2.raised = "none" THEN e1.raised
                                          ELSE "none"]
             ELSE LET e2 == session_rollback(e1, f.rollback)
                      e3 == IF e2.raised = "none" THEN session_commit(e2, f.commit)
                            ELSE e2
                  IN  [eff |-> e3, flush_exc_info |-> "none"]
    ELSE [eff |-> session_rollback(e, f.rollback), flush_exc_info |-> "none"]

\* _transaction_finalizer: [eff, flush_exc_info]; eff.raised is what the
\* finalizer itself raises, flush_exc_info what it returns
transaction_finalizer(e, exc_type, f) ==
    IF exc_type = "none"
    THEN LET e1 == session_flush(e, f.flush)
         IN  IF e1.raised # "none"
             THEN LET e2 == session_rollback(e1, f.rollback)
                  IN  [eff |-> e2,
                       flush_exc_info |-> IF e2.raised = "none" THEN e1.raised
                                          ELSE "none"]
             ELSE [eff |-> session_commit(e1, f.commit), flush_exc_info |-> "none"]
    ELSE [eff |-> session_rollback(e, f.rollback), flush_exc_info |-> "none"]

\* _never_called
never_called(e) == [eff |-> [e EXCEPT !.raised = "AssertionError"],
                    flush_exc_info |-> "none"]

\* ThreadLocalContextDeposit.on_exit: [count, eff, flush_exc_info]; without
\* a context it raises, otherwise it pops one and runs its finalizer
on_exit(count, e, exc_type, f) ==
    IF count = 0
    THEN [count |-> 0, eff |-> [e EXCEPT !.raised = "NoContextToExitFrom"],
          flush_exc_info |-> "none"]
    ELSE LET r == IF count - 1 > 0 THEN never_called(e)
                  ELSE transaction_finalizer(e, exc_type, f)
         IN  [count |-> count - 1, eff |-> r.eff,
              flush_exc_info |-> r.flush_exc_info]


ExitNeverRemoves(count, e, exc_type, f) ==
    LET r == on_exit(count, e, exc_type, f)
    IN  IF r.eff.raised # "none"
        THEN [count |-> r.count, eff |-> r.eff]
        ELSE [count |-> r.count, eff |-> [r.eff EXCEPT !.raised = r.flush_exc_info]]

ExitRemovesOnAnyError(count, e, exc_type, f) ==
    LET r == on_exit(count, e, exc_type, f)
    IN  IF r.eff.raised # "none"
        THEN [count |-> r.count, eff |-> session_remove(r.eff)]
        ELSE [count |-> r.count, eff |-> [r.eff EXCEPT !.raised = r.flush_exc_info]]

\* __exit__: [count, eff]; eff.raised is what __exit__ raises
transact_exit(count, e, exc_type, f) ==
    LET r == on_exit(count, e, exc_type, f)
    IN  IF r.eff.raised = "NoContextToExitFrom"
        THEN [count |-> r.count,
              eff |-> IF r.count > 0 THEN [r.eff EXCEPT !.raised = "AssertionError"]
                      ELSE r.eff]
        ELSE IF r.eff.raised # "none"
        THEN [count |-> r.count, eff |-> session_remove(r.eff)]
        ELSE [count |-> r.count, eff |-> [r.eff EXCEPT !.raised = r.flush_exc_info]]

\* the `with` statement after __exit__(exc_type, ...): what the caller gets
with_propagates(exc_type, raised) == IF raised # "none" THEN raised ELSE exc_type

\* the record of a call by thread t
Call(t, op, exc_type, f, e) ==
    [op |-> op, thread |-> t, exc_type |-> exc_type,
     entered_before |-> is_entered(t),
     after_force |-> last.op = "force" /\ last.thread = t /\ last.entered_before,
     had |-> uncommitted[t],
     failed |-> [flush |-> f.flush /\ e.flush > 0,
                 rollback |-> f.rollback /\ e.rollback > 0,
                 commit |-> f.commit /\ e.commit > 0],
     rollback |-> e.rollback, flush |-> e.flush, commit |-> e.commit,
     remove |-> e.remove, raised |-> e.raised,
     propagated |-> with_propagates(exc_type, e.raised)]

\* the exceptions the body of thread t may hand to __exit__
ExitExceptions(t) ==
    {"none", "ValueError"}
        \cup (IF last.thread = t /\ last.op = "enter" /\ last.raised # "none"
              THEN {last.raised} ELSE {})

\* thread_local_session.add(event), in a `with transact:` body or outside
TxAdd(t) ==
    /\ work_count < MaxWork
    /\ work_count' = work_count + 1
    /\ uncommitted' = [uncommitted EXCEPT ![t] = @ \cup {work_count + 1}]
    /\ last' = Call(t, "add", "none", NoFailure, Effect(t))
    /\ UNCHANGED <<context_count, with_depth, committed, stale>>
    /\ UNCHANGED <<cfgVars, wgen, wins, engVars>>

\* `with transact:` is reached: __enter__
TxEnter(t) ==
    /\ with_depth[t] < MaxDepth
    /\ \E fails \in BOOLEAN :
          LET r == transact_enter(deposit_context_count(t), Effect(t), fails)
          IN  /\ context_count' = [context_count EXCEPT ![t] = r.count]
              /\ with_depth' = [with_depth EXCEPT
                                  ![t] = IF r.eff.raised = "none" THEN @ + 1 ELSE @]
              /\ uncommitted' = [uncommitted EXCEPT ![t] = r.eff.uncommitted]
              /\ committed' = r.eff.committed
              /\ stale' = [stale EXCEPT
                              ![t] = IF r.eff.raised = "none"
                                     THEN @ \cup uncommitted[t] ELSE @]
              /\ last' = Call(t, "enter", "none", [NoFailure EXCEPT !.rollback = fails],
                               r.eff)
    /\ UNCHANGED work_count
    /\ UNCHANGED <<cfgVars, wgen, wins, engVars>>

\* the body of a `with transact:` ends, normally or with an exception: __exit__
TxExit(t) ==
    /\ with_depth[t] > 0
    /\ \E exc_type \in ExitExceptions(t) : \E f \in Failures(exc_type) :
          LET r == transact_exit(deposit_context_count(t), Effect(t), exc_type, f)
          IN  /\ context_count' = [context_count EXCEPT ![t] = r.count]
              /\ uncommitted' = [uncommitted EXCEPT ![t] = r.eff.uncommitted]
              /\ committed' = r.eff.committed
              /\ last' = Call(t, "exit", exc_type, f, r.eff)
    /\ with_depth' = [with_depth EXCEPT ![t] = @ - 1]
    /\ UNCHANGED <<work_count, stale>>
    /\ UNCHANGED <<cfgVars, wgen, wins, engVars>>

\* force_exit_on_any_remaining_entered_contexts(transact): the thread's
\* context is cleared
TxForceExit(t) ==
    /\ context_count' = [context_count EXCEPT ![t] = 0]
    /\ last' = Call(t, "force", "none", NoFailure, Effect(t))
    /\ UNCHANGED <<with_depth, uncommitted, committed, work_count, stale>>
    /\ UNCHANGED <<cfgVars, wgen, wins, engVars>>

InitT ==
    /\ opt_limit = None
    /\ day_step = 1
    /\ time_min = 0
    /\ time_max = None
    /\ time_until = None
    /\ now = 47
    /\ access_filtering_conditions = {1}
    /\ client_org_ids = NoneIds
    /\ store = {}
    /\ since = None
    /\ filtering_params = NoFilteringParams
    /\ api = NoRequest
    /\ broker = NoBrokerRequest
    /\ wgen = WGenStart
    /\ wins = <<>>
    /\ EngineCreated
    /\ TxCreated
    /\ parser = NoInput
    /\ amqp = NoConnecting
    /\ row_order = NoRowOrder

NextT ==
    \E t \in Threads :
        \/ TxAdd(t)
        \/ TxEnter(t)
        \/ TxExit(t)
        \/ TxForceExit(t)

SpecT == InitT /\ [][NextT]_vars

(* ------------------ claims on the transactional scope ---------------- *)

\* the latest call made no call on the session
NoSessionCall ==
    last.rollback = 0 /\ last.flush = 0 /\ last.commit = 0 /\ last.remove = 0

\* C12: __enter__ while the thread's scope is entered raises the reentrancy
\* error and leaves the active transaction as it was: no rollback, no commit
\* (no session call at all), the uncommitted work is kept and the scope
\* stays entered.
ThC12 ==
    (last.op = "enter" /\ last.entered_before) =>
        /\ last.raised = "ContextManagerIsNotReentrantError"
        /\ NoSessionCall
        /\ context_count[last.thread] = 1
        /\ uncommitted[last.thread] = last.had
        /\ committed \cap last.had = {}

\* C12 witness: a nested enter failed while the transaction held work
WitC12 ==
    /\ last.op = "enter"
    /\ last.entered_before
    /\ last.raised = "ContextManagerIsNotReentrantError"
    /\ last.had # {}
    /\ is_entered(last.thread)

\* C13: __exit__ without an active exception, the flush succeeding, calls
\* commit exactly once and never rollback; afterwards the scope is not
\* entered, and entering a scope that is not entered succeeds (unless its
\* rollback fails).
ThC13 ==
    /\ (last.op = "exit" /\ last.entered_before /\ last.exc_type = "none"
            /\ ~last.failed.flush) =>
          /\ last.flush = 1
          /\ last.commit = 1
          /\ last.rollback = 0
          /\ ~is_entered(last.thread)
          /\ ~last.failed.commit =>
                /\ last.raised = "none"
                /\ last.had \subseteq committed
                /\ uncommitted[last.thread] = {}
    /\ (last.op = "enter" /\ ~last.entered_before /\ ~last.failed.rollback) =>
          /\ last.raised = "none"
          /\ is_entered(last.thread)

\* C13 witness: a clean exit committed the work of the body
WitC13 ==
    /\ last.op = "exit"
    /\ last.entered_before
    /\ last.exc_type = "none"
    /\ last.commit = 1
    /\ last.raised = "none"
    /\ last.had # {}
    /\ last.had \subseteq committed
    /\ ~is_entered(last.thread)

\* C14 as stated: __exit__ with an active exception rolls back, never
\* flushes or commits, and the original exception propagates.
CexC14 ==
    (last.op = "exit" /\ last.entered_before /\ last.exc_type # "none") =>
        /\ last.rollback = 1
        /\ last.flush = 0
        /\ last.commit = 0
        /\ last.propagated = last.exc_type

\* C14, amended: __exit__ with an active exception calls rollback once and
\* never flush or commit; the original exception propagates unless the
\* rollback itself raises: then the session is removed and the rollback's
\* error propagates in its place.
ThC14 ==
    (last.op = "exit" /\ last.entered_before /\ last.exc_type # "none") =>
        /\ last.rollback = 1
        /\ last.flush = 0
        /\ last.commit = 0
        /\ committed \cap last.had = {}
        /\ ~is_entered(last.thread)
        /\ IF last.failed.rollback
           THEN last.propagated = "RollbackError" /\ last.remove = 1
           ELSE /\ last.raised = "none"
                /\ last.propagated = last.exc_type
                /\ last.remove = 0

\* C14 witness: the body raised ValueError with work pending; it was rolled
\* back and ValueError propagated
WitC14 ==
    /\ last.op = "exit"
    /\ last.entered_before
    /\ last.exc_type = "ValueError"
    /\ last.had # {}
    /\ last.rollback = 1
    /\ last.propagated = "ValueError"
    /\ uncommitted[last.thread] = {}

\* C15 as stated: when the flush of a clean exit fails, the session is rolled
\* back, commit is not called and the flush failure is raised.
CexC15 ==
    (last.op = "exit" /\ last.failed.flush) =>
        /\ last.rollback = 1
        /\ last.commit = 0
        /\ last.raised = "FlushError"

\* C15, amended: when the flush of a clean exit fails, rollback is called
\* once and commit never; the flush failure is raised unless the rollback
\* itself raises: then the session is removed and the rollback's error is
\* raised in its place.
ThC15 ==
    (last.op = "exit" /\ last.failed.flush) =>
        /\ last.exc_type = "none"
        /\ last.rollback = 1
        /\ last.commit = 0
        /\ committed \cap last.had = {}
        /\ IF last.failed.rollback
           THEN last.raised = "RollbackError" /\ last.remove = 1
           ELSE last.raised = "FlushError" /\ last.remove = 0

\* C15 witness: the flush failed with work pending, the work was rolled back
\* and the flush failure raised
WitC15 ==
    /\ last.op = "exit"
    /\ last.failed.flush
    /\ ~last.failed.rollback
    /\ last.had # {}
    /\ last.raised = "FlushError"
    /\ uncommitted[last.thread] = {}

\* C16: a successful __enter__ has called rollback once, so the new unit
\* starts with nothing uncommitted, and work that was uncommitted when a
\* thread entered a scope is never committed.
ThC16 ==
    /\ (last.op = "enter" /\ last.raised = "none") =>
          /\ last.rollback = 1
          /\ uncommitted[last.thread] = {}
          /\ is_entered(last.thread)
    /\ \A t \in Threads : stale[t] \cap committed = {}

\* C16 witness: work added before the enter was discarded, and the exit of
\* the unit committed the work of the body only
WitC16 ==
    /\ last.op = "exit"
    /\ last.commit = 1
    /\ last.raised = "none"
    /\ stale[last.thread] # {}
    /\ last.had # {}
    /\ last.had \subseteq committed
    /\ stale[last.thread] \cap committed = {}

\* C17: __exit__ on a scope that is not entered (the forced-exit helper has
\* cleared the context) raises NoContextToExitFrom, the scope is still not
\* entered, and no flush, commit, rollback or removal of the session is made.
ThC17 ==
    (last.op = "exit" /\ ~last.entered_before) =>
        /\ last.raised = "NoContextToExitFrom"
        /\ last.propagated = "NoContextToExitFrom"
        /\ NoSessionCall
        /\ ~is_entered(last.thread)
        /\ uncommitted[last.thread] = last.had

\* C17 witness: the helper cleared an entered scope whose body had added
\* work, and the exit that followed raised NoContextToExitFrom
WitC17 ==
    /\ last.op = "exit"
    /\ last.after_force
    /\ ~last.entered_before
    /\ last.raised = "NoContextToExitFrom"
    /\ last.had # {}

\* the commit or the rollback of the latest call failed
FinalizerFailed == last.failed.commit \/ last.failed.rollback

\* C40: when the commit or the rollback made by __exit__ itself raises, the
\* thread's session is removed (once) before that exception leaves __exit__,
\* so the session holds nothing of the broken unit afterwards; an exit whose
\* finalizer did not fail (a flush failure with a successful rollback, the
\* forced-exit case, a normal exit) removes no session.
ThC40 ==
    last.op = "exit" =>
        IF FinalizerFailed
        THEN /\ last.entered_before
             /\ last.remove = 1
             /\ last.raised \in {"CommitError", "RollbackError"}
             /\ last.propagated = last.raised
             /\ uncommitted[last.thread] = {}
        ELSE last.remove = 0

\* C40 witness: the commit of a clean exit failed with work of the body
\* uncommitted; the session was removed and the commit's error propagated
WitC40 ==
    /\ last.op = "exit"
    /\ last.exc_type = "none"
    /\ last.failed.commit
    /\ last.had # {}
    /\ last.remove = 1
    /\ last.raised = "CommitError"
    /\ uncommitted[last.thread] = {}
    /\ last.had \cap committed = {}

\* the threads other than the one that made the latest call
Others(t) == Threads \ {t}

\* C32: the entered state of `transact` is per thread.  A thread that is not
\* inside `with transact` enters successfully whether or not another thread
\* is inside (unless its own rollback fails), the reentrancy error is raised
\* only for an enter of a thread that is itself inside, and no call of a
\* thread (enter, exit, forced exit) changes the entered state of another
\* thread, discards its uncommitted work or commits it.
ThC32 ==
    /\ [](/\ (last.op = "enter" /\ ~last.entered_before /\ ~last.failed.rollback) =>
                 (last.raised = "none" /\ is_entered(last.thread))
          /\ (last.op = "enter" /\ last.raised = "ContextManagerIsNotReentrantError") =>
                 last.entered_before)
    /\ [][\A u \in Others(last'.thread) :
             /\ context_count'[u] = context_count[u]
             /\ uncommitted'[u] = uncommitted[u]
             /\ (committed' \ committed) \cap uncommitted[u] = {}]_vars

\* C32 witness: while a thread was inside `with transact` with uncommitted
\* work, the other thread entered, added work and exited with a commit; the
\* first thread is still inside and its work still uncommitted
WitC32 ==
    /\ last.op = "exit"
    /\ last.raised = "none"
    /\ last.commit = 1
    /\ last.had # {}
    /\ last.had \subseteq committed
    /\ \E u \in Others(last.thread) :
          /\ is_entered(u)
          /\ uncommitted[u] # {}
          /\ uncommitted[u] \cap committed = {}

(* ------------------ claims on get_counts_per_category ----------------- *)

\* the categories the counts query reports: those of the rows it selects
ReportedCategories == {e.row.category : e \in CountedRows}

\* C18: when get_counts_per_category returns, the keys of the mapping are
\* exactly CATEGORY_ENUMS; a category the store did not report maps to 0, a
\* reported one to the count the store returned.
ThC18 ==
    (since # None /\ fin.outcome = "returned") =>
        /\ DOMAIN counts = CATEGORY_ENUMS
        /\ \A c \in CATEGORY_ENUMS :
              counts[c] = IF c \in ReportedCategories
                          THEN category_count_pairs[c] ELSE 0

\* C18 witness: a returned mapping with a category of two events, a category
\* of one and a category the store did not report
WitC18 ==
    /\ since # None
    /\ fin.outcome = "returned"
    /\ ReportedCategories = {"bots", "cnc"}
    /\ counts["bots"] = 2
    /\ counts["cnc"] = 1
    /\ counts["phish"] = 0

\* C19: when the store reports a category outside CATEGORY_ENUMS, the call
\* ends with AssertionError and returns no mapping (a failed query aside,
\* which reports nothing).
ThC19 ==
    (since # None /\ pc = "done" /\ fin.cause # "dberror"
        /\ ~(ReportedCategories \subseteq CATEGORY_ENUMS)) =>
        /\ fin.outcome = "AssertionError"
        /\ counts = <<>>

\* C19 witness: the store reported a legal category and an illegal one, and
\* the call aborted
WitC19 ==
    /\ since # None
    /\ pc = "done"
    /\ fin.outcome = "AssertionError"
    /\ ReportedCategories = {"bots", "unknown-category"}
    /\ counts = <<>>

(* ------------- claims on the records without url_data ----------------- *)

\* C20: a record without url_data whose url starts with the provisional
\* prefix is dropped: it is never yielded nor counted, and the stream goes
\* on (at exhaustion every other fetched event has been yielded, and a cap
\* is reached by yielded records only); a record without url_data whose url
\* is absent or ordinary is yielded with the columns of its row.
ThC20 ==
    /\ \A r \in Results :
          (\A row \in FetchedOf(r) : row.url_data = NoUrlData) =>
              /\ r.url = NoUrl \/ ~startswith_provisional_prefix(r.url)
              /\ \E row \in hist.fetched :
                    /\ row.id = r.id /\ row.time = r.time
                    /\ row.url = r.url /\ row.sat = r.sat
    /\ results_counter = Len(out)
    /\ fin.cause = "cap" => Len(out) = opt_limit
    /\ fin.cause = "exhausted" =>
          \A row \in hist.fetched :
              (/\ row.url_data = NoUrlData
               /\ (row.url = NoUrl \/ ~startswith_provisional_prefix(row.url))) =>
                  \E r \in Results : r.id = row.id /\ r.url = row.url

\* C20 witness: under the cap 2, the newest event had a provisional url and
\* was dropped; the stream went on and yielded an event without url and one
\* with an ordinary url, which reached the cap
WitC20 ==
    /\ pc = "done"
    /\ fin.cause = "cap"
    /\ opt_limit = 2
    /\ Len(out) = 2
    /\ out[1].url = NoUrl
    /\ out[2].url = "plain"
    /\ \E row \in hist.fetched :
          /\ startswith_provisional_prefix(row.url)
          /\ row.time >= out[1].time
          /\ row.id < out[1].id

(* --------------- claims on the records with url_data ------------------ *)

\* the record the engine is about to preprocess
Candidate == make_result_dict(Head(pending))

\* url_data is a mapping with exactly the keys url_orig and url_norm_opts
WellFormedUrlData(result) ==
    /\ result.url_data.kind = "dict"
    /\ result.url_data.keys = UrlDataKeys

\* the two values of a well-formed url_data can be used: url_orig decodes
\* and url_norm_opts is a mapping
UsableUrlData(result) ==
    /\ urlsafe_b64decode(result.url_data.url_orig) # {}
    /\ result.url_data.url_norm_opts.mapping

\* the url of the record, normalized with the record's own options
NormalizedUrl(result) ==
    normalize_url(CHOOSE u \in urlsafe_b64decode(result.url_data.url_orig) : TRUE,
                  result.url_data.url_norm_opts.items)

\* the query has URL filter parameters and the normalized url of the record
\* is not among their values normalized with the record's options
FilteredOut(result) ==
    /\ filtering_params.url_b64 # <<>>
    /\ NormalizedUrl(result) \notin
          {normalize_url(u, result.url_data.url_norm_opts.items) :
              u \in filtering_params.url_b64[1]}

\* the step yields the candidate with its url replaced by the normalized one
KeptNormalized ==
    /\ out' = Append(out, [Candidate EXCEPT !.url = NormalizedUrl(Candidate),
                                            !.url_data = NoUrlData])
    /\ pending' = Tail(pending)
    /\ pc' = "yielded"

\* the step drops the candidate: nothing is yielded and the engine goes on
\* with the next record (or returns, the cap being reached)
Dropped ==
    /\ out' = out
    /\ pending' = Tail(pending)
    /\ fin'.cause \in {"none", "cap"}

\* the step is the preprocessing of a candidate with a well-formed url_data
PreprocessesWellFormed ==
    /\ pc = "running"
    /\ pending # <<>>
    /\ WellFormedUrlData(Candidate)
    /\ pending' # pending \/ pc' # pc

\* C21 as stated: a candidate record with a well-formed url_data is kept
\* with its url replaced by the normalized url, unless the query has URL
\* filter parameters and the normalized url is not among their normalized
\* values, in which case it is dropped; nothing else drops such a record
\* (stated of the records whose url_data values are usable).
CexC21 ==
    [][(PreprocessesWellFormed /\ UsableUrlData(Candidate)) =>
          IF FilteredOut(Candidate) THEN Dropped ELSE KeptNormalized]_vars

\* C21, amended: a candidate record with a well-formed url_data is dropped
\* when its url is absent or does not start with the provisional prefix;
\* otherwise, its values being usable, it is kept with its url replaced by
\* the normalized url unless the query has URL filter parameters and the
\* normalized url is not among their normalized values, in which case it
\* is dropped; nothing else drops such a record (values that cannot be used
\* make the preprocessing raise: the record is neither kept nor dropped).
ThC21 ==
    [][PreprocessesWellFormed =>
          IF Candidate.url = NoUrl \/ ~startswith_provisional_prefix(Candidate.url)
          THEN Dropped
          ELSE IF ~UsableUrlData(Candidate)
          THEN out' = out /\ pending' = pending /\ fin'.cause = "recorderror"
          ELSE IF FilteredOut(Candidate) THEN Dropped ELSE KeptNormalized]_vars

\* C21 witness: with the URL filter parameter "http://a/", the search ran to
\* its end; the event whose url_data normalizes to "http://a/" was yielded
\* with that url, and an event with a well-formed url_data of another url
\* was fetched and not yielded
WitC21 ==
    /\ fin.cause = "exhausted"
    /\ filtering_params.url_b64 = <<{"http://a/"}>>
    /\ \E r \in Results : \E row \in FetchedOf(r) :
          /\ WellFormedUrlData(row)
          /\ startswith_provisional_prefix(row.url)
          /\ r.url = "http://a/"
          /\ r.url_data = NoUrlData
    /\ \E row \in hist.fetched :
          /\ WellFormedUrlData(row)
          /\ startswith_provisional_prefix(row.url)
          /\ row.url_data.url_orig = B64["http://b/"]
          /\ \A r \in Results : r.id # row.id

\* the step is the preprocessing of a candidate whose url_data is malformed:
\* no mapping, other keys than the two, or values that cannot be used
PreprocessesMalformed ==
    /\ pc = "running"
    /\ pending # <<>>
    /\ Candidate.url_data.kind # "None"
    /\ ~(WellFormedUrlData(Candidate) /\ UsableUrlData(Candidate))
    /\ pending' # pending \/ pc' # pc

\* C22: a candidate record with a malformed url_data (anything other than a
\* mapping with exactly the keys url_orig and url_norm_opts carrying usable
\* values) is dropped and the stream goes on with the next record: nothing
\* is raised out of the result sequence.
CexC22 ==
    [][PreprocessesMalformed => Dropped]_vars

(* ---------------------- claims on the page queries -------------------- *)

\* _build_actual_query is about to be called
BuildingQuery == Fetching /\ fs = "build"

\* C30: for every opt_limit >= 0 (0 included), whenever _build_actual_query
\* is called the number of results produced so far is strictly less than
\* opt_limit: its assertion `still_expected > 0` never fails.
CexC30 ==
    (BuildingQuery /\ opt_limit # None) =>
        /\ results_counter < opt_limit
        /\ build_actual_query(qry.cur_step_fetched_rows_count, results_counter).ok

\* the step executes a page query
PageQueryExecuted == hist'.queries = hist.queries + 1 /\ fs' = "iter"

\* C28: with opt_limit set, every page query is built with
\* limit = remaining + max(100, remaining // 4), remaining being opt_limit
\* less the results produced when the query is built, and with the offset
\* equal to the number of rows already fetched in the current window over
\* all its earlier pages (0 for the first page of each window).
ThC28 ==
    [][(PageQueryExecuted /\ opt_limit # None) =>
          LET remaining == opt_limit - results_counter
              quarter == remaining \div 4
          IN  /\ qry'.limit = remaining + (IF quarter > 100 THEN quarter ELSE 100)
              /\ qry'.offset = hist.win_rows
              /\ hist.win_queries = 0 => qry'.offset = 0
              /\ RLen(page') <= qry'.limit]_vars

\* C28 witness: under the cap 2, the first page of a window, of limit 102,
\* was full and one result was produced from it; the second page query of
\* the window has the limit 1 + 100 and the offset 102
WitC28 ==
    /\ opt_limit = 2
    /\ fs = "iter"
    /\ hist.win_queries = 2
    /\ hist.at_build = 1
    /\ qry.limit = 101
    /\ qry.offset = opt_limit + 100
    /\ hist.win_rows = qry.offset

\* the number of stored rows the query of the current window matches
WindowRowCount ==
    RLen(CHOOSE ord \in Orders(build_query_base_for_single_step(wins[Len(wins)])) : TRUE)

\* the pagination of the current window is over, the engine is going on
WindowLeft == pc # "done" /\ fs = "nextwin" /\ wins # <<>>

\* a page of the current window was read to its end and was full
AnotherPageDue == BuildingQuery /\ hist.win_queries >= 1

SequenceEnded ==
    /\ pc = "done"
    /\ fin.cause \in {"cap", "exhausted", "dberror", "recorderror", "assert"}
    /\ Len(wins) * step_delta < MaxTime + HourMargin + step_delta

\* C25: for every store content, every opt_limit (or none), every time
\* constraints and every day_step >= 1, a consumer that keeps pulling
\* reaches the end of the result sequence: the generator finishes after
\* finitely many windows and page queries, by the cap being reached, by
\* exhaustion or by an error.
ThC25 == <>SequenceEnded

\* C25 witness: a search under a cap over two windows of a day came to its
\* end by exhaustion after more page queries than windows
WitC25 ==
    /\ pc = "done"
    /\ fin.cause = "exhausted"
    /\ opt_limit # None
    /\ day_step = 1
    /\ Len(wins) >= 2
    /\ hist.queries > Len(wins)
    /\ Len(out) >= 1

\* the engine invocation is in a terminal state: the cap was reached, the
\* rows were exhausted, or an error was propagated to the consumer
Terminal ==
    fin.cause \in {"cap", "exhausted", "dberror", "recorderror", "assert"}

\* C31: once an engine invocation has reached a terminal state, every
\* further pull yields no result and triggers no database query: no
\* transition leaves the terminal state (the generator stays finished, its
\* outcome is kept) and the sequence is not restarted (no window, no page,
\* no row, no counter moves).
ThC31 ==
    [][Terminal =>
          /\ pc = "done" /\ pc' = "done"
          /\ fin' = fin
          /\ out' = out
          /\ results_counter' = results_counter
          /\ hist'.queries = hist.queries
          /\ hist'.fetched = hist.fetched
          /\ hist'.openIters = hist.openIters
          /\ hist'.after_end \in {"none", "StopIteration"}
          /\ <<wgen, wins, fs, page, qry, tgroup, pending>>' =
                <<wgen, wins, fs, page, qry, tgroup, pending>>]_vars

\* C31 witness: the consumer pulled again after the cap was reached with a
\* page iterator drained at the end, and got StopIteration
WitC31 ==
    /\ Terminal
    /\ fin.cause = "cap"
    /\ fs = "closed"
    /\ Len(out) = opt_limit
    /\ hist.queries >= 1
    /\ hist.after_end = "StopIteration"

\* what a candidate record becomes when the normalizer and the normalized
\* 'url.b64' values are built anew for it
Rebuilt(result) ==
    IF ~url_data_based_matching(result) THEN preprocess_result_dict(result)
    ELSE LET url_orig == CHOOSE u \in urlsafe_b64decode(result.url_data.url_orig) : TRUE
             opts == result.url_data.url_norm_opts.items
             norm == normalize_url(url_orig, opts)
         IN  IF filtering_params.url_b64 # <<>>
                  /\ norm \notin {normalize_url(u, opts) :
                                     u \in filtering_params.url_b64[1]}
             THEN <<>>
             ELSE <<[result EXCEPT !.url = norm, !.url_data = NoUrlData]>>

\* a candidate record is about to be preprocessed (and does not raise)
Preprocessing ==
    /\ pc = "running"
    /\ pending # <<>>
    /\ preprocess_raised(make_result_dict(Head(pending))) = "none"

\* every cache entry is what this engine would build for its key
CacheCoherent ==
    \A k \in DOMAIN url_norm_cache :
        url_norm_cache[k] = build_url_norm_cache_item(k)

\* C34: the URL-normalization cache is transparent and private to one
\* engine.  Every candidate record is kept or dropped, and gets the url, as
\* if the normalizer and the normalized filter urls were built anew for it;
\* an entry, once built, stays as it is until the engine's end and a record
\* whose options have an entry builds none; a new engine starts with an
\* empty cache, so that every entry of a cache is the one built from the
\* filter parameters of its own engine.
ThC34 ==
    /\ []CacheCoherent
    /\ [][/\ Preprocessing =>
               out' = out \o Rebuilt(make_result_dict(Head(pending)))
          /\ hist'.engine = hist.engine =>
               \A k \in DOMAIN url_norm_cache :
                   /\ k \in DOMAIN url_norm_cache'
                   /\ url_norm_cache'[k] = url_norm_cache[k]
          /\ hist'.engine # hist.engine => url_norm_cache' = EmptyCache]_vars

\* C34 witness: a second engine, with other filter urls than the first,
\* kept a record through an entry it built for options the first engine
\* had an entry for, too
WitC34 ==
    /\ hist.engine = 2
    /\ filtering_params # hist.earlier_params
    /\ filtering_params.url_b64 # <<>>
    /\ hist.earlier_params.url_b64 # <<>>
    /\ \E k \in DOMAIN url_norm_cache \cap hist.earlier_keys :
          url_norm_cache[k].param_urls_norm = <<{"http://b/"}>>
    /\ \E i \in 1..Len(out) : out[i].url = "http://b/" /\ out[i].id = 2

(* ------------------- claims on the calls of the API ------------------- *)

\* the access zone a method of the API serves
ZoneOf(fn) ==
    CASE fn = "report_inside" -> "inside"
      [] fn = "report_threats" -> "threats"
      [] OTHER -> "search"

SearchMethods == {"report_inside", "report_threats", "search_events"}

\* the call has been made
Called == api.fn # "none" /\ api.outcome # "none"

\* the arguments of the call violate the contract: no (or no non-empty)
\* access filtering conditions, no time.min, `client` for the inside zone
ContractViolated ==
    IF api.fn = "get_counts_per_category"
    THEN api.access_filtering_conditions = {}
    ELSE \/ ZoneOf(api.fn) \notin DOMAIN api.access_zone_conditions
         \/ api.access_zone_conditions[ZoneOf(api.fn)] = {}
         \/ api.params.time_min = <<>>
         \/ api.fn = "report_inside" /\ api.params.client # <<>>

\* C23: report_inside, report_threats and search_events called with
\* missing or empty access filtering conditions for the zone, without
\* time.min, or (inside) with a `client` parameter, and
\* get_counts_per_category called with empty conditions, raise
\* AssertionError before a result sequence is returned and before any
\* database query is executed.
ThC23 ==
    /\ (Called /\ ContractViolated) =>
          /\ api.outcome = "AssertionError"
          /\ pc = "done"
          /\ fin = [cause |-> "contract", outcome |-> "AssertionError"]
          /\ counts = <<>>
    /\ api.outcome \in {"AssertionError", "returned"} => hist.queries = 0

\* C23 witness: report_inside was called with conditions for the inside
\* zone and with time.min, but with a `client` parameter: it raised
WitC23 ==
    /\ api.fn = "report_inside"
    /\ api.outcome = "AssertionError"
    /\ api.params.client = <<{1}>>
    /\ api.params.time_min # <<>>
    /\ "inside" \in DOMAIN api.access_zone_conditions
    /\ api.access_zone_conditions["inside"] # {}
    /\ hist.queries = 0

\* C24: for the inside zone the engine is always built with the client
\* filter [caller's org_id]; for threats and search with the request's
\* `client` list when it is non-empty and with None otherwise (an empty
\* list is never passed on, and does not make the call fail); `client` is
\* never left among the filtering parameters.
ThC24 ==
    (Called /\ api.fn \in SearchMethods) =>
        /\ ~ContractViolated => api.outcome = "returned"
        /\ api.outcome = "returned" =>
              /\ pc = "created"
              /\ filtering_params.client = <<>>
              /\ client_org_ids # {}
              /\ IF api.fn = "report_inside"
                 THEN client_org_ids = {api.org_id}
                 ELSE IF api.params.client \in {<<>>, <<{}>>}
                 THEN client_org_ids = NoneIds
                 ELSE client_org_ids = api.params.client[1]

\* C24 witness: report_threats was called with an empty `client` list and
\* returned a result sequence of an engine without client filter
WitC24 ==
    /\ api.fn = "report_threats"
    /\ api.params.client = <<{}>>
    /\ api.outcome = "returned"
    /\ pc = "created"
    /\ client_org_ids = NoneIds
    /\ filtering_params.client = <<>>

(* ---------------- claims on the stream-API broker auth ---------------- *)

\* the view has answered
Responded == broker.view # "none" /\ broker.response # "none"

\* C26: a request whose username is explicitly illegal ('' or 'guest') or
\* that carries a password is never verified and is denied by every view
\* (user, vhost, resource, topic) for every resource type, permission and
\* name, even when the Auth DB holds a user or component of that login.
ThC26 ==
    (Responded /\ (broker.username \in {"", "guest"} \/ broker.password # <<>>)) =>
        /\ broker.client = NoClient
        /\ broker.response = "deny"

\* C26 witness: the resource view denied 'guest', without password, the
\* permission to write to the push exchange although the Auth DB holds an
\* admin user of that login
WitC26 ==
    /\ broker.view = "resource"
    /\ broker.username = "guest"
    /\ broker.password = <<>>
    /\ "guest" \in DOMAIN broker.db.user
    /\ broker.db.user["guest"].admin
    /\ broker.resource = "exchange"
    /\ broker.permission = "write"
    /\ broker.settings.push_exchange_name = <<"_push">>
    /\ broker.name = "_push"
    /\ broker.response = "deny"

\* the client of the request is an admin user or a privileged component
Privileged ==
    \/ broker.client.type = "user" /\ broker.client.admin
    \/ /\ broker.client.type = "component"
       /\ broker.client.login \in broker.settings.privileged_component_logins

\* C27: for a client that is not privileged, an exchange request is allowed
\* in exactly two cases: 'write' by a verified client on the exchange named
\* as the configured push exchange, and 'read' by a verified user whose
\* organization id equals the exchange name; 'configure' is never allowed,
\* unverified clients are always denied, components never get 'read'.
ThC27 ==
    (Responded /\ broker.view = "resource" /\ broker.resource = "exchange"
       /\ ~Privileged) =>
        /\ broker.response \in {"allow", "deny"}
        /\ broker.response = "allow" <=>
              \/ /\ broker.permission = "write"
                 /\ broker.client.type \in {"user", "component"}
                 /\ broker.settings.push_exchange_name = <<broker.name>>
              \/ /\ broker.permission = "read"
                 /\ broker.client.type = "user"
                 /\ broker.client.org_id = broker.name
        /\ broker.permission = "configure" => broker.response = "deny"
        /\ broker.client.type = "none" => broker.response = "deny"
        /\ (broker.client.type = "component" /\ broker.permission = "read") =>
              broker.response = "deny"

\* C27 witness: the regular user 'regular' of the organization 'o2' was
\* allowed to read from the exchange 'o2'
WitC27 ==
    /\ broker.view = "resource"
    /\ broker.resource = "exchange"
    /\ broker.permission = "read"
    /\ broker.username = "regular"
    /\ broker.client.type = "user"
    /\ ~broker.client.admin
    /\ broker.client.org_id = "o2"
    /\ broker.name = "o2"
    /\ broker.response = "allow"

(* ------------------------ claims on the parsers ------------------------ *)

\* the ids of a sequence of records, in order
IdsOf(seq) == [k \in 1..Len(seq) |-> seq[k].id]

\* the items of the input that parse() yields as records or skips, up to the
\* first one that breaks parse(): [ids, broken]
RECURSIVE Parsed(_, _, _)
Parsed(cls, input, no) ==
    IF no > Len(input) THEN [ids |-> <<>>, broken |-> FALSE]
    ELSE LET kind == input[no]
             rest == Parsed(cls, input, no + 1)
         IN  IF kind = "no_with" \/ (kind \in ParseErrors /\ cls = "BlackListParser")
                  \/ (kind = "KeyError" /\ cls = "BaseParser")
             THEN [ids |-> <<>>, broken |-> TRUE]
             ELSE IF kind \in ParseErrors THEN rest
             ELSE [ids |-> <<no>> \o rest.ids, broken |-> rest.broken]

\* the exceptions of parsing, postprocessing and serializing, and the
\* ValueError of the empty result
DataErrors ==
    {"AdjusterError", "KeyError", "AssertionError", "PostprocessError",
     "SerializeError", "ValueError"}

\* C35: input_callback publishes nothing for an input message before every
\* record of it has been parsed, postprocessed and serialized; if parsing or
\* postprocessing (or serializing) raises, or the result is empty while
\* allow_empty_results is False (ValueError), nothing is published at all;
\* otherwise the serialized records are published in the order in which
\* they were parsed (all of them unless publish_output itself raises).
ThC35 ==
    /\ parser.published # <<>> =>
          /\ parser.pos \in {"publish", "done"}
          /\ \A k \in 1..Len(parser.working_seq) : parser.working_seq[k].form = "json"
          /\ ~Parsed(parser.cls, parser.input, 1).broken
          /\ IdsOf(parser.working_seq) = Parsed(parser.cls, parser.input, 1).ids
    /\ parser.published = SubSeq(parser.working_seq, 1, Len(parser.published))
    /\ parser.raised \in DataErrors => parser.published = <<>>
    /\ (Parsed(parser.cls, parser.input, 1).broken
           \/ \E k \in 1..Len(parser.input) :
                 parser.input[k] \in {"PostprocessError", "SerializeError"}) =>
          /\ parser.published = <<>>
          /\ parser.pos = "done" => parser.raised \in DataErrors
    /\ (parser.pos = "done" /\ Parsed(parser.cls, parser.input, 1).ids = <<>>
           /\ ~parser.allow_empty_results) =>
          parser.raised \in DataErrors
    /\ (parser.pos = "done" /\ parser.raised = "none") =>
          /\ parser.published = parser.working_seq
          /\ IdsOf(parser.published) = Parsed(parser.cls, parser.input, 1).ids
          /\ parser.published = <<>> => parser.allow_empty_results

\* C35 witness: a BaseParser skipped the item whose parsing raised
\* AdjusterError and published the two records around it, serialized, in
\* the order of the input
WitC35 ==
    /\ parser.cls = "BaseParser"
    /\ parser.pos = "done"
    /\ parser.raised = "none"
    /\ parser.input = <<"ok", "AdjusterError", "ok">>
    /\ IdsOf(parser.published) = <<1, 3>>
    /\ \A k \in 1..2 : parser.published[k].form = "json"

(* --------------- claims on the AMQP connection attempts ---------------- *)

\* _make_connection has ended, by a return or by an exception
ConnectionMade == amqp.pos \in {"returned", "raised", "entered", "failed"}

\* C36: _make_connection makes at most CONNECTION_ATTEMPTS (10) attempts;
\* it returns the first connection that succeeds and makes no further
\* attempt; it has waited CONNECTION_RETRY_DELAY after each attempt that
\* failed with an AMQPConnectionError; after 10 such failures in a row it
\* raises the error of the last attempt; any other exception propagates
\* from the attempt it was raised in, without a wait and without a retry.
ThC36 ==
    /\ [](/\ amqp.attempts <= CONNECTION_ATTEMPTS
          /\ amqp.pos = "loop" =>
                /\ amqp.slept = amqp.attempts * CONNECTION_RETRY_DELAY
                /\ amqp.last_exc.attempt = amqp.attempts
          /\ (ConnectionMade /\ amqp.outcome = "connection") =>
                /\ amqp.raised = NoExc
                /\ amqp.slept = (amqp.attempts - 1) * CONNECTION_RETRY_DELAY
                /\ amqp.last_exc.attempt = amqp.attempts - 1
          /\ (ConnectionMade /\ amqp.outcome = "raised") =>
                IF amqp.raised.type \in AMQPConnectionErrors
                THEN /\ amqp.attempts = CONNECTION_ATTEMPTS
                     /\ amqp.raised = amqp.last_exc
                     /\ amqp.raised.attempt = CONNECTION_ATTEMPTS
                     /\ amqp.slept = CONNECTION_ATTEMPTS * CONNECTION_RETRY_DELAY
                ELSE /\ amqp.raised.type \in {"ParametersError", "OtherError"}
                     /\ amqp.raised.attempt = amqp.attempts
                     /\ amqp.slept = (amqp.attempts - 1) * CONNECTION_RETRY_DELAY)
    /\ [][ConnectionMade =>
             /\ amqp'.attempts = amqp.attempts
             /\ amqp'.slept = amqp.slept
             /\ amqp'.outcome = amqp.outcome
             /\ amqp'.raised = amqp.raised]_vars

\* C36 witness: ten attempts failed with an AMQPConnectionError, ten waits
\* were made, and the error of the tenth attempt was raised
WitC36 ==
    /\ amqp.pos = "raised"
    /\ amqp.attempts = 10
    /\ amqp.slept = 50
    /\ amqp.raised = [attempt |-> 10, type |-> "IncompatibleProtocolError"]

(* ------------- claims on the clients of the results (SpecI) ----------- *)

\* the organizations some row of the store stores the event for
StoredFor(id) == {e.row.client : e \in {x \in store : x.row.id = id}}

\* C39: when a client filter is configured, the `client` set of every
\* yielded result is a non-empty subset of client_org_ids, whatever other
\* organizations the event is stored for; every result of report_inside has
\* the client set {caller's org_id}.
ThC39 ==
    client_org_ids # NoneIds =>
        \A k \in 1..Len(out) :
            /\ out[k].client # {}
            /\ out[k].client \subseteq client_org_ids
            /\ api.fn = "report_inside" => out[k].client = {api.org_id}

\* C39 witness: report_inside of the organization 2 yielded the event that
\* is stored for the organization 1 as well, and the search is over
WitC39 ==
    /\ api.fn = "report_inside"
    /\ api.outcome = "returned"
    /\ api.org_id = 2
    /\ client_org_ids = {2}
    /\ pc = "done"
    /\ Len(out) = 1
    /\ out[1].id = 1
    /\ out[1].client = {2}
    /\ 1 \in StoredFor(1)

(* ---- claims on paging over an Event DB with a fixed row order (SpecO) - *)

\* is s a prefix of t?
IsPrefix(s, t) == Len(s) <= Len(t) /\ \A k \in 1..Len(s) : s[k] = t[k]

\* all the windows _time_comparisons_per_step yields, from the generator
\* state g on
RECURSIVE WindowsFrom(_)
WindowsFrom(g) ==
    LET r == time_comparisons_next(g)
    IN  IF r.yielded = <<>> THEN <<>>
        ELSE r.yielded \o WindowsFrom(r.gen)

\* the rows of the windows ws, window after window, each window's rows in
\* the order the Event DB follows
RECURSIVE RowsOfWindows(_)
RowsOfWindows(ws) ==
    IF ws = <<>> THEN <<>>
    ELSE SelectSeq(row_order[1],
                   LAMBDA e : e \in build_query_base_for_single_step(Head(ws)))
             \o RowsOfWindows(Tail(ws))

\* the rows at the head of `rows` that have the time of the first one
RECURSIVE SameTimeHead(_)
SameTimeHead(rows) ==
    IF Len(rows) >= 2 /\ rows[2].row.time = rows[1].row.time
    THEN <<rows[1]>> \o SameTimeHead(Tail(rows))
    ELSE <<rows[1]>>

\* the id-groups of the time-groups of `rows`, in order
RECURSIVE IdGroupsOfRows(_)
IdGroupsOfRows(rows) ==
    IF rows = <<>> THEN <<>>
    ELSE LET g == SameTimeHead(rows)
         IN  IdGroups(g) \o IdGroupsOfRows(SubSeq(rows, Len(g) + 1, Len(rows)))

\* the records of the id-groups gs that are kept, up to the first one whose
\* preprocessing raises
RECURSIVE ResultsOfGroups(_)
ResultsOfGroups(gs) ==
    IF gs = <<>> THEN <<>>
    ELSE IF preprocess_raised(make_result_dict(Head(gs))) # "none" THEN <<>>
    ELSE Rebuilt(make_result_dict(Head(gs))) \o ResultsOfGroups(Tail(gs))

\* the result sequence of the request, told from the store alone: no cap, no
\* pages, no counters
FullResults == ResultsOfGroups(IdGroupsOfRows(RowsOfWindows(WindowsFrom(WGenStart))))

\* C37: over an Event DB that returns its rows in one fixed order (time
\* descending), what a search has yielded is always a prefix of the result
\* sequence of the request without cap; a search that ends on its cap N >= 1
\* has yielded exactly its first N results, a search (capped or not) that
\* ends on exhaustion or on a record that raises has yielded all of it.  So
\* paging with the reserve loses, repeats and reorders nothing, and dropped
\* records do not count for the cap.
ThC37 ==
    row_order # NoRowOrder =>
        /\ IsPrefix(out, FullResults)
        /\ (pc = "done" /\ fin.cause = "cap") => Len(out) = opt_limit
        /\ (pc = "done" /\ fin.cause \in {"exhausted", "recorderror"}) =>
              /\ out = FullResults
              /\ opt_limit # None => Len(FullResults) < opt_limit

\* C37 witness: with a fixed order and the cap 1, a first event of very many
\* rows was dropped by the URL filter, the second one, delivered by several
\* page queries, was yielded, and the search ended on its cap
WitC37 ==
    /\ row_order # NoRowOrder
    /\ opt_limit = 1
    /\ pc = "done"
    /\ fin.cause = "cap"
    /\ hist.queries >= 3
    /\ \E r \in hist.fetched : r.id = 2 /\ r.time > 30
    /\ Len(out) = 1
    /\ out[1].id = 1
    /\ out = FullResults

\* C38: no event id is yielded twice by one engine, and the client set of
\* every yielded result is the set of the (non-null) clients of all the
\* rows of that id the page queries delivered, whichever page delivered
\* them and whether or not the Event DB keeps one order.
ThC38 ==
    /\ \A i, j \in 1..Len(out) : i # j => out[i].id # out[j].id
    /\ \A i \in 1..Len(out) :
          out[i].client =
              {d.client : d \in {x \in hist.deliv : x.id = out[i].id}} \ {None}

\* C38 witness: the rows of an event were delivered by two page queries of
\* one window, the rows of a second client by the later query only, and the
\* event was yielded once with both clients
WitC38 ==
    \E i \in 1..Len(out) : \E d1, d2 \in hist.deliv :
        /\ d1.id = out[i].id
        /\ d2.id = out[i].id
        /\ d1.window = d2.window
        /\ d1.query < d2.query
        /\ d1.client # d2.client
        /\ \A d \in hist.deliv :
              (d.id = d2.id /\ d.client = d2.client) => d.query = d2.query
        /\ out[i].client = {d1.client, d2.client}
        /\ Len(out) = 1

====
